---- MODULE Spec2Model ----
(***************************************************************************)
(* Ingestion pipeline of dataUrnas-br: the realtime builder                *)
(* (scripts/download_and_build.py) over the DuckDB store                   *)
(* (dataurnas/database/duckdb_store.py), the download orchestrator         *)
(* (dataurnas/downloader/manager.py, tse_api.py) and the rate limiter      *)
(* (dataurnas/downloader/client.py).                                       *)
(***************************************************************************)
EXTENDS Integers, Sequences, FiniteSets, TLC

(* ------------------------------------------------------------------ *)
(* Bounds of the model                                                *)
(* ------------------------------------------------------------------ *)
\* number of ballot files that can exist under RAW_DIR
NumFiles == 2
\* number of injected faults (failed INSERT, process kill) in SpecFaults
MaxFaults == 1
\* number of sections download_state has selected
NumSections == 2
\* max_concurrent of the DownloadManager
MaxConcurrent == 1
\* rate of the RateLimiter, in requests per second
Rate == 2
\* size of the burst, in seconds' worth of requests
BurstSeconds == 10
\* number of TSEClient calls made one after the other on one destination
MaxCalls == 2
\* number of sections of a download_state run that goes through several batches
NumBatched == 3
\* number of calls made on a RealtimeBuilder after its finish() has returned
MaxLateCalls == 2

(* ------------------------------------------------------------------ *)
(* Program constants (scaled down: the code has 200 and 500)          *)
(* ------------------------------------------------------------------ *)
BATCH_SIZE == 2
SNAPSHOT_INTERVAL == 2
\* config.py MAX_RETRIES
\* manager.py line 187, scaled: the sections of one gather
BATCH == 2
MAX_RETRIES == 10
\* the cap of client.py lines 90 and 137, in seconds
BackoffCap == 30

(* ------------------------------------------------------------------ *)
(* Ballot files and SectionIds                                        *)
(* ------------------------------------------------------------------ *)
\* pleito codes that occur in file names o00{pleito}-{...}.bu
PleitoList == <<"406", "407", "452">>

\* A ballot file is numbered in the order sorted(rglob("*.bu")) lists it:
\* by section directory first, then by file name (pleito).
Files == 1 .. NumFiles

SecOf(f) == ((f - 1) \div Len(PleitoList)) + 1

extract_pleito_from_filename(f) == PleitoList[((f - 1) % Len(PleitoList)) + 1]

\* a mapping that knows one round only
TurnoAlwaysOne(pleito) == 1

\* batch.py lines 74-78: mapping.get(pleito, 1)
pleito_to_turno(pleito) ==
    CASE pleito = "406" -> 1
      [] pleito = "407" -> 2
      [] pleito = "452" -> 1
      [] pleito = "453" -> 2
      [] OTHER -> 1

\* f"{turno}T/{uf}/{mun}/{zona}/{secao}" from the path of the file
bu_file_to_secao_id(f) ==
    <<pleito_to_turno(extract_pleito_from_filename(f)), SecOf(f)>>

Ids == {bu_file_to_secao_id(f) : f \in Files}

\* the detail rows a decoded file carries: consistency issues, vote tuples
\* of its one office, and the per-office total
NumIssues(f) == IF extract_pleito_from_filename(f) = "407" THEN 1 ELSE 0
NumVotos(f) == IF extract_pleito_from_filename(f) = "452" THEN 1 ELSE 2

VARIABLES
    disk,       \* ballot files present under RAW_DIR
    corrupt,    \* files of disk BUParser.parse raises on
    secoes,     \* table secoes: SectionId -> row
    issues,     \* table issues: SectionId -> number of rows
    votos,      \* table votos: SectionId -> number of rows
    totais,     \* table totais_cargo: SectionId -> number of rows
    existing,   \* RealtimeBuilder._existing
    queue,      \* RealtimeBuilder._queue
    compiled,   \* RealtimeBuilder._compiled
    errors,     \* RealtimeBuilder._errors
    lastSnap,   \* RealtimeBuilder._last_snapshot
    done,       \* RealtimeBuilder._done
    pcMain,     \* position of the main thread
    scan,       \* files compile_remaining_from_disk has still to look at
    called,     \* ballot files whose section's completion callback ran
    pcCons,     \* position of the consumer thread (_compile_loop)
    batch,      \* batch of the consumer loop
    stmt,       \* index of the next SQL statement of _process_section
    pcSnap,     \* position inside create_snapshot
    primary,    \* the primary database file (content as of the last checkpoint)
    tmpFile,    \* eleicoes_2022_live.duckdb.tmp
    snapFile,   \* eleicoes_2022_live.duckdb, the published snapshot
    reader,     \* what the last reader found when it opened the snapshot path
    opened,     \* the file the last get_store call of the dashboard opened
    primaryOnDisk, \* eleicoes_2022.duckdb exists
    faults,     \* faults injected so far
    hist,       \* history of the run (observations only)
    manifest,   \* per section, the "hashes" list of its aux.json
    fileTypes,  \* download_state's file_types argument (<<>>: None)
    task,       \* per section, the state of its _process_one_section task
    stats,      \* DownloadManager._stats
    sectionSem, \* free permits of section_sem
    fileSem,    \* free permits of DownloadManager._semaphore
    dlHist,     \* per section, what its task did (observations only)
    clock,      \* time.monotonic(), in ticks of 1/rate second
    tokens,     \* RateLimiter._tokens
    lastRefill, \* RateLimiter._last_refill
    limPc,      \* where the caller holding RateLimiter._lock is
    wakeAt,     \* the tick at which the pending asyncio.sleep is due
    returned,   \* acquire() calls of the burst that have returned
    doneAt,     \* the tick at which the last call of the burst returned
    cKind,      \* the TSEClient call in progress: "json" or "file"
    cPc,        \* where the call is: "idle", "request", "stream"
    attempt,    \* the loop variable of the call
    dest,       \* the destination file of download_file
    outcome,    \* how the last call ended
    cHist,      \* what the call did (observations only)
    idFile,     \* the ballot file whose SectionId is being derived
    idPath,     \* what _bu_file_to_secao_id returned for it
    idStored,   \* the id _process_section stores its row under
    idPrev,     \* the file derived before it, with its stored id
    pcReb,      \* position of rebuild_db.py's main()
    rebTodo     \* bu_files of rebuild_db.py still to be processed

pipeVars == <<disk, corrupt, secoes, issues, votos, totais, existing, queue,
              compiled, errors, lastSnap, done, pcMain, scan, called, pcCons,
              batch, stmt, pcSnap, primary, tmpFile, snapFile, reader, faults,
              hist, opened, primaryOnDisk>>

dlVars == <<manifest, fileTypes, task, stats, sectionSem, fileSem, dlHist>>

rlVars == <<clock, tokens, lastRefill, limPc, wakeAt, returned, doneAt>>

clVars == <<cKind, cPc, attempt, dest, outcome, cHist>>

idVars == <<idFile, idPath, idStored, idPrev>>

rebVars == <<pcReb, rebTodo>>

vars == <<pipeVars, dlVars, rlVars, clVars, idVars, rebVars>>

Absent == [st |-> "absent", rows |-> {}]

Rows(t) == DOMAIN t

ZeroCount == [i \in Ids |-> 0]

HistInit ==
    [ startIds   |-> {},          \* _existing as loaded by __init__
      startRows  |-> <<>>,        \* table secoes when the run began
      calls      |-> ZeroCount,   \* _process_section calls of this run, per id
      allCalls   |-> [f \in Files |-> 0],  \* _process_section calls ever, per file
      firstVotos |-> [f \in Files |-> 0],  \* votos rows of the file's id when its first call ended
      firstTot   |-> [f \in Files |-> 0],  \* totais_cargo rows likewise
      firstRow   |-> <<>>,        \* secoes row of the file's id when its first call ended
      enq        |-> 0,           \* items put on the queue in this run
      handled    |-> 0,           \* items the consumer has dealt with in this run
      failedDec  |-> {},          \* files whose decode failed in _analyze_section
      racy       |-> FALSE,       \* _existing was tested while the consumer held the lock
      snapErr    |-> "none",      \* the step of create_snapshot that raised last
      snapErrCons |-> FALSE,      \* that call was the consumer's periodic snapshot
      ckptFailed |-> FALSE,       \* the CHECKPOINT of line 152 has raised
      late       |-> 0 ]          \* calls made on the builder after finish() returned

InitPipe ==
    /\ disk = {}
    /\ corrupt = {}
    /\ secoes = <<>>
    /\ issues = ZeroCount
    /\ votos = ZeroCount
    /\ totais = ZeroCount
    /\ existing = {}
    /\ queue = <<>>
    /\ compiled = 0
    /\ errors = 0
    /\ lastSnap = 0
    /\ done = FALSE
    /\ pcMain = "start"
    /\ scan = {}
    /\ called = {}
    /\ pcCons = "off"
    /\ batch = <<>>
    /\ stmt = 0
    /\ pcSnap = "off"
    /\ primary = {}
    /\ tmpFile = Absent
    /\ snapFile = Absent
    /\ reader = "none"
    /\ opened = "none"
    /\ primaryOnDisk = FALSE
    /\ faults = 0
    /\ hist = HistInit

(* ------------------------------------------------------------------ *)
(* DuckDBStore._process_section                                       *)
(* ------------------------------------------------------------------ *)
Repeat(x, n) == [i \in 1 .. n |-> x]

\* The SQL statements one call issues, in order, each committed on its own:
\* the secoes row, the issue rows, then per office its vote rows and its total.
\* When BUParser.parse raised, _analyze_section has swallowed the error and
\* result["bu_obj"] is None: only the secoes row is written.
Stmts(f, bad) ==
    IF bad
    THEN <<"secoes">>
    ELSE <<"secoes">> \o Repeat("issue", NumIssues(f))
                      \o Repeat("voto", NumVotos(f)) \o <<"total">>

\* The values bound to INSERT OR REPLACE INTO secoes: the id parts come from
\* the path, the ballot fields from the decoded file (0: bu_info is None).
SecoesRow(f, bad) ==
    [ turno    |-> pleito_to_turno(extract_pleito_from_filename(f)),
      sec      |-> SecOf(f),
      bu       |-> IF bad THEN 0 ELSE f,
      n_issues |-> IF bad THEN 0 ELSE NumIssues(f) ]

\* INSERT OR REPLACE INTO secoes: one row per primary key
Upsert(t, id, row) == [i \in (DOMAIN t) \cup {id} |-> IF i = id THEN row ELSE t[i]]

\* INSERT INTO votos / issues / totais_cargo: a plain append
InsertRow(t, id) == [t EXCEPT ![id] = @ + 1]

\* the statement `kind` of a call for file f takes effect
Execute(kind, f) ==
    LET id == bu_file_to_secao_id(f) IN
    /\ secoes' = IF kind = "secoes"
                 THEN Upsert(secoes, id, SecoesRow(f, f \in corrupt))
                 ELSE secoes
    /\ issues' = IF kind = "issue" THEN InsertRow(issues, id) ELSE issues
    /\ votos' = IF kind = "voto" THEN InsertRow(votos, id) ELSE votos
    /\ totais' = IF kind = "total" THEN InsertRow(totais, id) ELSE totais

\* history: a _process_section call for file f begins / ends
HistCallBegins(h, f) ==
    [h EXCEPT !.calls[bu_file_to_secao_id(f)] = @ + 1, !.allCalls[f] = @ + 1,
              !.failedDec = IF f \in corrupt THEN @ \cup {f} ELSE @]

HistCallEnds(h, f) ==
    LET id == bu_file_to_secao_id(f) IN
    IF h.allCalls[f] = 1
    THEN [h EXCEPT !.firstVotos[f] = votos'[id], !.firstTot[f] = totais'[id],
                   !.firstRow = IF id \in DOMAIN secoes'
                               THEN Upsert(@, f, secoes'[id]) ELSE @]
    ELSE h

(* ------------------------------------------------------------------ *)
(* RealtimeBuilder._compile_loop (the consumer thread)                *)
(* ------------------------------------------------------------------ *)
\* a loop that stops as soon as _done is set
LoopConditionNoDrain == ~done

\* line 124: while not self._done or not self._queue.empty()
LoopCondition == ~done \/ queue # <<>>

\* a consumer that compiles whatever it is handed
NeverCompiled(id) == FALSE

\* line 138: if secao_id in self._existing: continue
AlreadyCompiled(id) == id \in existing

ConsLoopTest ==
    /\ pcCons = "loop"
    /\ IF LoopCondition
       THEN pcCons' = "get" /\ batch' = <<>>
       ELSE pcCons' = "exit" /\ batch' = batch
    /\ UNCHANGED <<disk, corrupt, secoes, issues, votos, totais, existing, queue,
                   compiled, errors, lastSnap, done, pcMain, scan, called, stmt,
                   pcSnap, primary, tmpFile, snapFile, reader, faults, hist>>
    /\ UNCHANGED <<dlVars, rlVars, clVars, idVars, rebVars>>
    /\ UNCHANGED <<opened, primaryOnDisk>>

\* queue.get() hands over the next item
ConsGet ==
    /\ pcCons = "get"
    /\ Len(batch) < BATCH_SIZE
    /\ queue # <<>>
    /\ batch' = Append(batch, Head(queue))
    /\ queue' = Tail(queue)
    /\ UNCHANGED <<disk, corrupt, secoes, issues, votos, totais, existing,
                   compiled, errors, lastSnap, done, pcMain, scan, called, pcCons,
                   stmt, pcSnap, primary, tmpFile, snapFile, reader, faults,
                   hist>>
    /\ UNCHANGED <<dlVars, rlVars, clVars, idVars, rebVars>>
    /\ UNCHANGED <<opened, primaryOnDisk>>

\* the batch is full, or queue.get(timeout=2.0) raised Empty
ConsGetEnds ==
    /\ pcCons = "get"
    /\ Len(batch) = BATCH_SIZE \/ queue = <<>>
    /\ pcCons' = IF batch = <<>> THEN "loop" ELSE "item"
    /\ UNCHANGED <<disk, corrupt, secoes, issues, votos, totais, existing, queue,
                   compiled, errors, lastSnap, done, pcMain, scan, called, batch,
                   stmt, pcSnap, primary, tmpFile, snapFile, reader, faults,
                   hist>>
    /\ UNCHANGED <<dlVars, rlVars, clVars, idVars, rebVars>>
    /\ UNCHANGED <<opened, primaryOnDisk>>

\* the next item of the batch is in _existing: skipped
ConsSkip ==
    /\ pcCons = "item"
    /\ batch # <<>>
    /\ AlreadyCompiled(bu_file_to_secao_id(Head(batch)))
    /\ batch' = Tail(batch)
    /\ hist' = [hist EXCEPT !.handled = @ + 1]
    /\ UNCHANGED <<disk, corrupt, secoes, issues, votos, totais, existing, queue,
                   compiled, errors, lastSnap, done, pcMain, scan, called, pcCons,
                   stmt, pcSnap, primary, tmpFile, snapFile, reader, faults>>
    /\ UNCHANGED <<dlVars, rlVars, clVars, idVars, rebVars>>
    /\ UNCHANGED <<opened, primaryOnDisk>>

\* the next item is not in _existing: _process_section is called
ConsCall ==
    /\ pcCons = "item"
    /\ batch # <<>>
    /\ ~AlreadyCompiled(bu_file_to_secao_id(Head(batch)))
    /\ pcCons' = "proc"
    /\ stmt' = 1
    /\ hist' = HistCallBegins(hist, Head(batch))
    /\ UNCHANGED <<disk, corrupt, secoes, issues, votos, totais, existing, queue,
                   compiled, errors, lastSnap, done, pcMain, scan, called, batch,
                   pcSnap, primary, tmpFile, snapFile, reader, faults>>
    /\ UNCHANGED <<dlVars, rlVars, clVars, idVars, rebVars>>
    /\ UNCHANGED <<opened, primaryOnDisk>>

\* a consumer that forgets what it has compiled
MarkNothing(ex, id) == ex

\* line 144: self._existing.add(secao_id)
MarkCompiled(ex, id) == ex \cup {id}

\* one statement of _process_section; after the last one the call returns and
\* lines 144-145 record the section as compiled
ProcStmt ==
    /\ pcCons = "proc"
    /\ LET f == Head(batch)
           id == bu_file_to_secao_id(f)
           ss == Stmts(f, f \in corrupt)
       IN /\ Execute(ss[stmt], f)
          /\ IF stmt < Len(ss)
             THEN /\ stmt' = stmt + 1
                  /\ UNCHANGED <<existing, compiled, batch, pcCons, hist>>
             ELSE /\ stmt' = 0
                  /\ existing' = MarkCompiled(existing, id)
                  /\ compiled' = compiled + 1
                  /\ batch' = Tail(batch)
                  /\ pcCons' = "item"
                  /\ hist' = [HistCallEnds(hist, f) EXCEPT !.handled = @ + 1]
    /\ UNCHANGED <<disk, corrupt, queue, errors, lastSnap, done, pcMain, scan,
                   called, pcSnap, primary, tmpFile, snapFile, reader, faults>>
    /\ UNCHANGED <<dlVars, rlVars, clVars, idVars, rebVars>>
    /\ UNCHANGED <<opened, primaryOnDisk>>

\* a statement raises (storage error): lines 146-149 count the item as an error
ProcStmtFails ==
    /\ pcCons = "proc"
    /\ faults < MaxFaults
    /\ faults' = faults + 1
    /\ stmt' = 0
    /\ errors' = errors + 1
    /\ batch' = Tail(batch)
    /\ pcCons' = "item"
    /\ UNCHANGED <<secoes, issues, votos, totais>>
    /\ hist' = [HistCallEnds(hist, Head(batch)) EXCEPT !.handled = @ + 1]
    /\ UNCHANGED <<disk, corrupt, existing, queue, compiled, lastSnap, done,
                   pcMain, scan, called, pcSnap, primary, tmpFile, snapFile,
                   reader>>
    /\ UNCHANGED <<dlVars, rlVars, clVars, idVars, rebVars>>
    /\ UNCHANGED <<opened, primaryOnDisk>>

\* line 152: CHECKPOINT after the batch
ConsCheckpoint ==
    /\ pcCons = "item"
    /\ batch = <<>>
    /\ primary' = Rows(secoes)
    /\ pcCons' = "snapchk"
    /\ UNCHANGED <<disk, corrupt, secoes, issues, votos, totais, existing, queue,
                   compiled, errors, lastSnap, done, pcMain, scan, called, batch,
                   stmt, pcSnap, tmpFile, snapFile, reader, faults, hist>>
    /\ UNCHANGED <<dlVars, rlVars, clVars, idVars, rebVars>>
    /\ UNCHANGED <<opened, primaryOnDisk>>

\* line 152 raises: the statement stands outside every try block, so the
\* exception leaves the `with self._lock` block (releasing the lock) and
\* _compile_loop itself; the consumer thread ends with the queue as it is
ConsCheckpointFails ==
    /\ pcCons = "item"
    /\ batch = <<>>
    /\ faults < MaxFaults
    /\ faults' = faults + 1
    /\ pcCons' = "exit"
    /\ hist' = [hist EXCEPT !.ckptFailed = TRUE]
    /\ UNCHANGED <<disk, corrupt, secoes, issues, votos, totais, existing, queue,
                   compiled, errors, lastSnap, done, pcMain, scan, called, batch,
                   stmt, pcSnap, primary, tmpFile, snapFile, reader>>
    /\ UNCHANGED <<dlVars, rlVars, clVars, idVars, rebVars>>
    /\ UNCHANGED <<opened, primaryOnDisk>>

\* a loop that never takes a periodic snapshot
SnapshotNeverDue == FALSE

\* line 160: if self._compiled - self._last_snapshot >= SNAPSHOT_INTERVAL
SnapshotDue == compiled - lastSnap >= SNAPSHOT_INTERVAL

\* line 160: a snapshot is due after SNAPSHOT_INTERVAL compiled sections
ConsSnapshotDue ==
    /\ pcCons = "snapchk"
    /\ IF SnapshotDue
       THEN pcCons' = "snapshot" /\ pcSnap' = "checkpoint"
       ELSE pcCons' = "loop" /\ pcSnap' = pcSnap
    /\ UNCHANGED <<disk, corrupt, secoes, issues, votos, totais, existing, queue,
                   compiled, errors, lastSnap, done, pcMain, scan, called, batch,
                   stmt, primary, tmpFile, snapFile, reader, faults, hist>>
    /\ UNCHANGED <<dlVars, rlVars, clVars, idVars, rebVars>>
    /\ UNCHANGED <<opened, primaryOnDisk>>

\* line 163: create_snapshot has returned
ConsSnapshotTaken ==
    /\ pcCons = "snapshot"
    /\ pcSnap = "return"
    /\ pcSnap' = "off"
    /\ lastSnap' = compiled
    /\ pcCons' = "loop"
    /\ UNCHANGED <<disk, corrupt, secoes, issues, votos, totais, existing, queue,
                   compiled, errors, done, pcMain, scan, called, batch, stmt,
                   primary, tmpFile, snapFile, reader, faults, hist>>
    /\ UNCHANGED <<dlVars, rlVars, clVars, idVars, rebVars>>
    /\ UNCHANGED <<opened, primaryOnDisk>>

(* ------------------------------------------------------------------ *)
(* create_snapshot                                                    *)
(* ------------------------------------------------------------------ *)
\* Every caller runs it on the thread that owns the writer connection at that
\* moment: __init__ before the consumer starts, the consumer itself, finish()
\* after the join. No statement runs on the store while it is in progress.

\* a copy made straight onto the published path
CopyTargetInPlace == "snap"

\* line 70: shutil.copy2 writes to the temporary path
CopyTarget == "tmp"

\* line 65: store._conn.execute("CHECKPOINT")
SnapCheckpoint ==
    /\ pcSnap = "checkpoint"
    /\ primary' = Rows(secoes)
    /\ pcSnap' = "unlink_tmp"
    /\ UNCHANGED <<disk, corrupt, secoes, issues, votos, totais, existing, queue,
                   compiled, errors, lastSnap, done, pcMain, scan, called, pcCons,
                   batch, stmt, tmpFile, snapFile, reader, faults, hist>>
    /\ UNCHANGED <<dlVars, rlVars, clVars, idVars, rebVars>>
    /\ UNCHANGED <<opened, primaryOnDisk>>

\* line 68: tmp_snap.unlink(missing_ok=True)
SnapUnlinkTmp ==
    /\ pcSnap = "unlink_tmp"
    /\ tmpFile' = Absent
    /\ pcSnap' = "copy"
    /\ UNCHANGED <<disk, corrupt, secoes, issues, votos, totais, existing, queue,
                   compiled, errors, lastSnap, done, pcMain, scan, called, pcCons,
                   batch, stmt, primary, snapFile, reader, faults, hist>>
    /\ UNCHANGED <<dlVars, rlVars, clVars, idVars, rebVars>>
    /\ UNCHANGED <<opened, primaryOnDisk>>

\* line 70: the copy has created its target and written part of the data
SnapCopyBegins ==
    /\ pcSnap = "copy"
    /\ IF CopyTarget = "tmp"
       THEN tmpFile' = [st |-> "partial", rows |-> primary] /\ snapFile' = snapFile
       ELSE snapFile' = [st |-> "partial", rows |-> primary] /\ tmpFile' = tmpFile
    /\ pcSnap' = "copying"
    /\ UNCHANGED <<disk, corrupt, secoes, issues, votos, totais, existing, queue,
                   compiled, errors, lastSnap, done, pcMain, scan, called, pcCons,
                   batch, stmt, primary, reader, faults, hist>>
    /\ UNCHANGED <<dlVars, rlVars, clVars, idVars, rebVars>>
    /\ UNCHANGED <<opened, primaryOnDisk>>

\* line 70: the copy has written the last byte
SnapCopyEnds ==
    /\ pcSnap = "copying"
    /\ IF CopyTarget = "tmp"
       THEN tmpFile' = [st |-> "complete", rows |-> primary] /\ snapFile' = snapFile
       ELSE snapFile' = [st |-> "complete", rows |-> primary] /\ tmpFile' = tmpFile
    /\ pcSnap' = "rename"
    /\ UNCHANGED <<disk, corrupt, secoes, issues, votos, totais, existing, queue,
                   compiled, errors, lastSnap, done, pcMain, scan, called, pcCons,
                   batch, stmt, primary, reader, faults, hist>>
    /\ UNCHANGED <<dlVars, rlVars, clVars, idVars, rebVars>>
    /\ UNCHANGED <<opened, primaryOnDisk>>

\* line 72: tmp_snap.rename(SNAPSHOT_PATH); a missing source raises, which
\* line 77 logs and swallows
SnapRename ==
    /\ pcSnap = "rename"
    /\ IF tmpFile.st # "absent"
       THEN snapFile' = tmpFile /\ tmpFile' = Absent /\ pcSnap' = "unlink_wal"
       ELSE snapFile' = snapFile /\ tmpFile' = tmpFile /\ pcSnap' = "return"
    /\ UNCHANGED <<disk, corrupt, secoes, issues, votos, totais, existing, queue,
                   compiled, errors, lastSnap, done, pcMain, scan, called, pcCons,
                   batch, stmt, primary, reader, faults, hist>>
    /\ UNCHANGED <<dlVars, rlVars, clVars, idVars, rebVars>>
    /\ UNCHANGED <<opened, primaryOnDisk>>

\* line 75: wal.unlink(missing_ok=True); the snapshot file itself is not touched
SnapUnlinkWal ==
    /\ pcSnap = "unlink_wal"
    /\ pcSnap' = "return"
    /\ UNCHANGED <<disk, corrupt, secoes, issues, votos, totais, existing, queue,
                   compiled, errors, lastSnap, done, pcMain, scan, called, pcCons,
                   batch, stmt, primary, tmpFile, snapFile, reader, faults,
                   hist>>
    /\ UNCHANGED <<dlVars, rlVars, clVars, idVars, rebVars>>
    /\ UNCHANGED <<opened, primaryOnDisk>>

\* the steps of create_snapshot inside its try block, lines 65-75
SnapSteps == {"checkpoint", "unlink_tmp", "copy", "copying", "rename", "unlink_wal"}

\* a create_snapshot without its except clause
CreateSnapshotRaises == FALSE

\* lines 77-78: except Exception logs a warning and the function returns
CreateSnapshotCatches == TRUE

\* A step of create_snapshot raises: the CHECKPOINT, the unlink of the temporary
\* file, the copy (before creating its target, or after writing part of it),
\* the rename or the unlink of the WAL. Whatever the step had written stays.
\* The except clause ends the call; without it the exception would leave the
\* caller too, and end the consumer thread when the caller is line 162.
SnapStepFails ==
    /\ pcSnap \in SnapSteps
    /\ faults < MaxFaults
    /\ faults' = faults + 1
    /\ hist' = [hist EXCEPT !.snapErr = pcSnap,
                            !.snapErrCons = (pcCons = "snapshot")]
    /\ IF CreateSnapshotCatches \/ pcCons # "snapshot"
       THEN pcSnap' = "return" /\ pcCons' = pcCons
       ELSE pcSnap' = "off" /\ pcCons' = "exit"
    /\ UNCHANGED <<disk, corrupt, secoes, issues, votos, totais, existing, queue,
                   compiled, errors, lastSnap, done, pcMain, scan, called, batch,
                   stmt, primary, tmpFile, snapFile, reader>>
    /\ UNCHANGED <<dlVars, rlVars, clVars, idVars, rebVars>>
    /\ UNCHANGED <<opened, primaryOnDisk>>

\* The primary file is held by the builder process from __init__ to
\* store.close(): another process cannot open it meanwhile.
BuilderRunning == pcMain \notin {"start", "closed"}

\* get_store of the dashboard, app.py lines 59-61: the snapshot path exists and
\* is opened read-only (an absent path is only looked at)
ReaderOpens ==
    /\ reader' = snapFile.st
    /\ opened' = IF snapFile.st # "absent" THEN "snapshot" ELSE opened
    /\ UNCHANGED <<disk, corrupt, secoes, issues, votos, totais, existing, queue,
                   compiled, errors, lastSnap, done, pcMain, scan, called, pcCons,
                   batch, stmt, pcSnap, primary, tmpFile, snapFile, faults,
                   hist>>
    /\ UNCHANGED <<dlVars, rlVars, clVars, idVars, rebVars>>
    /\ UNCHANGED primaryOnDisk

\* get_store, lines 59-70: the snapshot path is absent or opening it raised;
\* the primary file is opened read-only when it exists and can be opened,
\* and None is returned otherwise (lines 72-87, with no Parquet files)
GetStoreFallback ==
    /\ opened' = IF primaryOnDisk /\ ~BuilderRunning THEN "primary" ELSE "none"
    /\ UNCHANGED <<disk, corrupt, secoes, issues, votos, totais, existing, queue,
                   compiled, errors, lastSnap, done, pcMain, scan, called, pcCons,
                   batch, stmt, pcSnap, primary, tmpFile, snapFile, reader, faults,
                   hist>>
    /\ UNCHANGED <<dlVars, rlVars, clVars, idVars, rebVars>>
    /\ UNCHANGED primaryOnDisk

(* ------------------------------------------------------------------ *)
(* RealtimeBuilder: the main thread                                   *)
(* ------------------------------------------------------------------ *)
\* the pleitos main() downloads (lines 269-270)
DownloadedPleitos == {"406", "407"}

Min(S) == CHOOSE x \in S : \A y \in S : x <= y

\* lines 118 and 172: an item is put unless its id is empty or in _existing
Enqueues(id) == id \notin existing

\* lines 136-152 and 161-162: the consumer is inside `with self._lock`
ConsumerHoldsLock == pcCons \in {"item", "proc", "snapshot"}

\* lines 118 and 172 test _existing without taking the lock: the test goes
\* ahead whoever holds it
TestsExisting(h) == [h EXCEPT !.racy = @ \/ ConsumerHoldsLock]

\* files reach the disk while no pipeline process runs (download_full.py, an
\* earlier harvest)
DiskChange ==
    /\ pcMain = "start"
    /\ \E f \in Files \ disk, bad \in BOOLEAN :
         /\ disk' = disk \cup {f}
         /\ corrupt' = IF bad THEN corrupt \cup {f} ELSE corrupt
    /\ UNCHANGED <<secoes, issues, votos, totais, existing, queue, compiled,
                   errors, lastSnap, done, pcMain, scan, called, pcCons, batch,
                   stmt, pcSnap, primary, tmpFile, snapFile, reader, faults,
                   hist>>
    /\ UNCHANGED <<dlVars, rlVars, clVars, idVars, rebVars>>
    /\ UNCHANGED <<opened, primaryOnDisk>>

\* a builder that starts with an empty _existing
LoadExistingIdsNone == {}

\* __init__, lines 99-100: SELECT id FROM secoes
LoadExistingIds == Rows(secoes)

\* __init__, lines 89-104: open the store (which creates the primary file when
\* it is missing), load _existing, initial snapshot
Construct ==
    /\ pcMain = "start"
    /\ existing' = LoadExistingIds
    /\ queue' = <<>>
    /\ compiled' = 0
    /\ errors' = 0
    /\ lastSnap' = 0
    /\ done' = FALSE
    /\ pcSnap' = "checkpoint"
    /\ pcMain' = "init_snapshot"
    /\ hist' = [hist EXCEPT !.startIds = Rows(secoes), !.startRows = secoes,
                            !.calls = ZeroCount, !.enq = 0, !.handled = 0]
    /\ UNCHANGED <<disk, corrupt, secoes, issues, votos, totais, scan, called,
                   pcCons, batch, stmt, primary, tmpFile, snapFile, reader, faults>>
    /\ UNCHANGED <<dlVars, rlVars, clVars, idVars, rebVars>>
    /\ primaryOnDisk' = TRUE
    /\ UNCHANGED opened

\* __init__, lines 107-108, start the consumer; then compile_remaining_from_disk
\* line 168 lists the ballot files of the disk
ConstructEnds ==
    /\ pcMain = "init_snapshot"
    /\ pcSnap = "return"
    /\ pcSnap' = "off"
    /\ pcCons' = "loop"
    /\ scan' = disk
    /\ pcMain' = "scan"
    /\ UNCHANGED <<disk, corrupt, secoes, issues, votos, totais, existing, queue,
                   compiled, errors, lastSnap, done, called, batch, stmt, primary,
                   tmpFile, snapFile, reader, faults, hist>>
    /\ UNCHANGED <<dlVars, rlVars, clVars, idVars, rebVars>>
    /\ UNCHANGED <<opened, primaryOnDisk>>

\* compile_remaining_from_disk, lines 170-174: one file of the list
ScanStep ==
    /\ pcMain = "scan"
    /\ scan # {}
    /\ LET f == Min(scan) IN
         /\ scan' = scan \ {f}
         /\ IF Enqueues(bu_file_to_secao_id(f))
            THEN /\ queue' = Append(queue, f)
                 /\ hist' = [TestsExisting(hist) EXCEPT !.enq = @ + 1]
            ELSE /\ queue' = queue
                 /\ hist' = TestsExisting(hist)
    /\ UNCHANGED <<disk, corrupt, secoes, issues, votos, totais, existing,
                   compiled, errors, lastSnap, done, pcMain, called, pcCons, batch,
                   stmt, pcSnap, primary, tmpFile, snapFile, reader, faults>>
    /\ UNCHANGED <<dlVars, rlVars, clVars, idVars, rebVars>>
    /\ UNCHANGED <<opened, primaryOnDisk>>

ScanEnds ==
    /\ pcMain = "scan"
    /\ scan = {}
    /\ pcMain' = "download"
    /\ UNCHANGED <<disk, corrupt, secoes, issues, votos, totais, existing, queue,
                   compiled, errors, lastSnap, done, scan, called, pcCons, batch,
                   stmt, pcSnap, primary, tmpFile, snapFile, reader, faults,
                   hist>>
    /\ UNCHANGED <<dlVars, rlVars, clVars, idVars, rebVars>>
    /\ UNCHANGED <<opened, primaryOnDisk>>

\* A section of a state download completes: the orchestrator has stored the
\* section's ballot file (or found none to store) and calls
\* on_section_downloaded(section_dir, pleito), lines 110-120.
SectionDownloaded(h) ==
    \E f \in Files, got \in {"none", "good", "bad"} :
         LET isNew == got # "none" /\ f \notin disk
             onDisk == IF isNew THEN disk \cup {f} ELSE disk
         IN /\ extract_pleito_from_filename(f) \in DownloadedPleitos
            /\ f \notin called
            /\ called' = called \cup {f}
            /\ disk' = onDisk
            /\ corrupt' = IF isNew /\ got = "bad" THEN corrupt \cup {f} ELSE corrupt
            /\ IF f \in onDisk /\ Enqueues(bu_file_to_secao_id(f))
               THEN /\ queue' = Append(queue, f)
                    /\ hist' = [TestsExisting(h) EXCEPT !.enq = @ + 1]
               ELSE /\ queue' = queue
                    /\ hist' = IF f \in onDisk THEN TestsExisting(h) ELSE h

\* main(), lines 269-272: the downloads run between compile_remaining_from_disk
\* and finish()
OnSectionDownloaded ==
    /\ pcMain = "download"
    /\ SectionDownloaded(hist)
    /\ UNCHANGED <<secoes, issues, votos, totais, existing, compiled, errors,
                   lastSnap, done, pcMain, scan, pcCons, batch, stmt, pcSnap,
                   primary, tmpFile, snapFile, reader, faults>>
    /\ UNCHANGED <<dlVars, rlVars, clVars, idVars, rebVars>>
    /\ UNCHANGED <<opened, primaryOnDisk>>

\* finish, line 179: self._done = True
Finish ==
    /\ pcMain = "download"
    /\ done' = TRUE
    /\ pcMain' = "join"
    /\ UNCHANGED <<disk, corrupt, secoes, issues, votos, totais, existing, queue,
                   compiled, errors, lastSnap, scan, called, pcCons, batch, stmt,
                   pcSnap, primary, tmpFile, snapFile, reader, faults, hist>>
    /\ UNCHANGED <<dlVars, rlVars, clVars, idVars, rebVars>>
    /\ UNCHANGED <<opened, primaryOnDisk>>

\* a join that gives up waiting
JoinTimedOut == TRUE

\* finish, line 181: self._thread.join() returns once the consumer has ended
Joined == pcCons = "exit"

\* finish, lines 181-185: after the join, the final snapshot
FinishJoins ==
    /\ pcMain = "join"
    /\ Joined
    /\ pcSnap' = "checkpoint"
    /\ pcMain' = "final_snapshot"
    /\ UNCHANGED <<disk, corrupt, secoes, issues, votos, totais, existing, queue,
                   compiled, errors, lastSnap, done, scan, called, pcCons, batch,
                   stmt, primary, tmpFile, snapFile, reader, faults, hist>>
    /\ UNCHANGED <<dlVars, rlVars, clVars, idVars, rebVars>>
    /\ UNCHANGED <<opened, primaryOnDisk>>

\* finish, lines 187-190: count queries and store.close()
FinishEnds ==
    /\ pcMain = "final_snapshot"
    /\ pcSnap = "return"
    /\ pcSnap' = "off"
    /\ pcMain' = "closed"
    /\ UNCHANGED <<disk, corrupt, secoes, issues, votos, totais, existing, queue,
                   compiled, errors, lastSnap, done, scan, called, pcCons, batch,
                   stmt, primary, tmpFile, snapFile, reader, faults, hist>>
    /\ UNCHANGED <<dlVars, rlVars, clVars, idVars, rebVars>>
    /\ UNCHANGED <<opened, primaryOnDisk>>

\* on_section_downloaded is called on the builder after finish() has returned:
\* lines 110-120 test only the id, never _done
LateOnSectionDownloaded ==
    /\ pcMain = "closed"
    /\ hist.late < MaxLateCalls
    /\ SectionDownloaded([hist EXCEPT !.late = @ + 1])
    /\ UNCHANGED <<secoes, issues, votos, totais, existing, compiled, errors,
                   lastSnap, done, pcMain, scan, pcCons, batch, stmt, pcSnap,
                   primary, tmpFile, snapFile, reader, faults>>
    /\ UNCHANGED <<dlVars, rlVars, clVars, idVars, rebVars>>
    /\ UNCHANGED <<opened, primaryOnDisk>>

\* compile_remaining_from_disk is called after finish() has returned: lines
\* 168-174 put every listed file whose id is not in _existing
LateCompileRemaining ==
    /\ pcMain = "closed"
    /\ hist.late < MaxLateCalls
    /\ LET listed == [f \in Files |-> f]
           new == SelectSeq(listed, LAMBDA f : f \in disk
                                              /\ Enqueues(bu_file_to_secao_id(f)))
       IN /\ queue' = queue \o new
          /\ hist' = [hist EXCEPT !.late = @ + 1, !.enq = @ + Len(new)]
    /\ UNCHANGED <<disk, corrupt, secoes, issues, votos, totais, existing,
                   compiled, errors, lastSnap, done, pcMain, scan, called, pcCons,
                   batch, stmt, pcSnap, primary, tmpFile, snapFile, reader, faults>>
    /\ UNCHANGED <<dlVars, rlVars, clVars, idVars, rebVars>>
    /\ UNCHANGED <<opened, primaryOnDisk>>

\* the memory of a process that has ended is gone; the files stay
ProcessGone ==
    /\ existing' = {}
    /\ queue' = <<>>
    /\ compiled' = 0
    /\ errors' = 0
    /\ lastSnap' = 0
    /\ done' = FALSE
    /\ scan' = {}
    /\ called' = {}
    /\ pcCons' = "off"
    /\ batch' = <<>>
    /\ stmt' = 0
    /\ pcSnap' = "off"
    /\ pcMain' = "start"

\* the script is started again after it has ended
Rerun ==
    /\ pcMain = "closed"
    /\ ProcessGone
    /\ UNCHANGED <<disk, corrupt, secoes, issues, votos, totais, primary, tmpFile,
                   snapFile, reader, faults, hist>>
    /\ UNCHANGED <<dlVars, rlVars, clVars, idVars, rebVars>>
    /\ UNCHANGED <<opened, primaryOnDisk>>

\* the process is killed at an arbitrary point and started again; every
\* statement that had returned is committed and survives
Kill ==
    /\ pcMain \notin {"start", "closed"}
    /\ faults < MaxFaults
    /\ faults' = faults + 1
    /\ ProcessGone
    /\ UNCHANGED <<disk, corrupt, secoes, issues, votos, totais, primary, tmpFile,
                   snapFile, reader, hist>>
    /\ UNCHANGED <<dlVars, rlVars, clVars, idVars, rebVars>>
    /\ UNCHANGED <<opened, primaryOnDisk>>

(* ------------------------------------------------------------------ *)
(* DownloadManager.download_state                                     *)
(* ------------------------------------------------------------------ *)
\* the sections download_state has selected (after the municipality filter
\* and the sampling)
Sections == 1 .. NumSections

\* entries of a section's manifest: the hash ("none": the key is missing) and
\* the file names, written by their type suffix
Entry(h, names) == [hash |-> h, arqs |-> names]

Manifests ==
    { <<>>,
      <<Entry("0", <<"bu", "logjez">>)>>,
      <<Entry("h1", <<"bu", "logjez">>)>>,
      <<Entry("h1", <<"bu">>), Entry("h2", <<"bu", "logjez">>)>>,
      <<Entry("", <<"bu">>), Entry("h1", <<"bu">>)>>,
      <<Entry("none", <<"bu">>)>> }

FileTypeArgs == {<<>>, <<"bu">>}

\* tse_api.py line 75: h.get("hash", "")
HashVal(h) == IF h.hash = "none" THEN "" ELSE h.hash

\* line 76 with "or not hash_val" left out
IsZeroHash(hv) == hv = "0"

\* tse_api.py line 76: if hash_val == "0" or not hash_val: continue
IsNullHash(hv) == hv = "0" \/ hv = ""

\* TSEApi.get_section_meta on a fetched manifest: one UrnaMeta per entry kept
get_section_meta(m) ==
    LET Kept(h) == ~IsNullHash(HashVal(h)) IN
    [i \in 1 .. Len(SelectSeq(m, Kept)) |->
        [hash |-> HashVal(SelectSeq(m, Kept)[i]), arquivos |-> SelectSeq(m, Kept)[i].arqs]]

\* manager.py lines 63-69: the file-type filter of download_section_files
MatchesFileTypes(filename, types) ==
    types = <<>> \/ \E i \in 1 .. Len(types) : types[i] = filename

\* the file names of one urna download_section_files will request
Wanted(urna, types) ==
    LET Keep(fn) == MatchesFileTypes(fn, types) IN SelectSeq(urna.arquivos, Keep)

NoResults == [ok |-> 0, skip |-> 0, fail |-> 0]

IdleTask == [pc |-> "new", urnas |-> <<>>, files |-> <<>>, results |-> NoResults]

\* procAtCb: the section's own count in sections_processed as the callback
\* found it (-1: no callback yet)
DlHistInit == [meta |-> "none", raised |-> FALSE, calls |-> 0, errs |-> 0,
               down |-> 0, proc |-> 0, cb |-> 0, procAtCb |-> -1]

ZeroStats == [downloaded |-> 0, skipped |-> 0, errors |-> 0, sections_processed |-> 0]

\* a fresh DownloadManager about to run download_state on the selected sections
InitDownload ==
    /\ manifest \in [Sections -> Manifests]
    /\ fileTypes \in FileTypeArgs
    /\ task = [s \in Sections |-> IdleTask]
    /\ stats = ZeroStats
    /\ sectionSem = MaxConcurrent
    /\ fileSem = MaxConcurrent
    /\ dlHist = [s \in Sections |-> DlHistInit]

\* the manifests of the sections of a run of several batches: no file to
\* fetch, or two files
BatchManifests ==
    { <<Entry("0", <<"bu", "logjez">>)>>, <<Entry("h1", <<"bu", "logjez">>)>> }

\* a fresh DownloadManager about to run download_state on NumBatched sections
InitBatches ==
    /\ manifest \in [1 .. NumBatched -> BatchManifests]
    /\ fileTypes \in FileTypeArgs
    /\ task = [s \in 1 .. NumBatched |-> IdleTask]
    /\ stats = ZeroStats
    /\ sectionSem = MaxConcurrent
    /\ fileSem = MaxConcurrent
    /\ dlHist = [s \in 1 .. NumBatched |-> DlHistInit]

\* no download in the picture
DownloadIdle ==
    /\ manifest = <<>>
    /\ fileTypes = <<>>
    /\ task = <<>>
    /\ stats = ZeroStats
    /\ sectionSem = 0
    /\ fileSem = 0
    /\ dlHist = <<>>

\* lines 130-138 counting the failed section as processed too
CountErrorAsProcessed(st) == [st EXCEPT !.errors = @ + 1, !.sections_processed = @ + 1]

\* manager.py line 138: self._stats["errors"] += 1
CountError(st) == [st EXCEPT !.errors = @ + 1]

\* lines 106-108 without the downloaded count
AddResultsNoDownloaded(st, res) ==
    [st EXCEPT !.skipped = @ + res.skip, !.errors = @ + res.fail]

\* manager.py lines 106-108: the urna's results are added to the stats
AddResults(st, res) ==
    [st EXCEPT !.downloaded = @ + res.ok, !.skipped = @ + res.skip,
               !.errors = @ + res.fail]

\* the end of the try block of _process_one_section, lines 110-117: the
\* section is counted, the callback runs, the section permit is released
SectionCompletes(s, t, st, h) ==
    /\ task' = [task EXCEPT ![s] = [t EXCEPT !.pc = "done"]]
    /\ stats' = [st EXCEPT !.sections_processed = @ + 1]
    /\ dlHist' = [dlHist EXCEPT ![s] = [h EXCEPT !.proc = @ + 1, !.cb = @ + 1,
                                                  !.procAtCb = h.proc + 1]]
    /\ sectionSem' = sectionSem + 1

\* lines 102-110 from the point where an urna's downloads begin: urnas without
\* a wanted file finish at once with empty results
SkipEmptyUrnas(urnas) ==
    LET Busy(u) == Wanted(u, fileTypes) # <<>> IN
    IF \E i \in 1 .. Len(urnas) : Busy(urnas[i])
    THEN LET k == CHOOSE i \in 1 .. Len(urnas) :
                     Busy(urnas[i]) /\ \A j \in 1 .. (i - 1) : ~Busy(urnas[j])
         IN SubSeq(urnas, k, Len(urnas))
    ELSE <<>>

\* the sections download_state works on (lines 165-181)
Selected == DOMAIN task

\* a download_state that starts every task at once
AllTasksAtOnce(s) == TRUE

\* lines 188-197: the batch of section s, in list order
BatchOf(s) == (s - 1) \div BATCH

\* lines 188-197: the tasks of a batch are created once the gather of the
\* batch before it has returned, that is once all its tasks have ended
BatchStarted(s) ==
    \A t \in Selected : BatchOf(t) < BatchOf(s) => task[t].pc = "done"

\* a semaphore that lets every caller in
PermitAlwaysFree(sem) == TRUE

\* asyncio.Semaphore.acquire goes on only while the value is above zero
PermitFree(sem) == sem > 0

\* line 99: async with section_sem
SectionAcquires(s) ==
    /\ task[s].pc = "new"
    /\ BatchStarted(s)
    /\ PermitFree(sectionSem)
    /\ sectionSem' = sectionSem - 1
    /\ task' = [task EXCEPT ![s].pc = "meta"]
    /\ UNCHANGED <<manifest, fileTypes, stats, fileSem, dlHist>>
    /\ UNCHANGED <<pipeVars, rlVars, clVars, idVars, rebVars>>

\* line 101: get_section_meta raises; lines 130-138 count one error
MetaRaises(s) ==
    /\ task[s].pc = "meta"
    /\ task' = [task EXCEPT ![s].pc = "done"]
    /\ stats' = CountError(stats)
    /\ sectionSem' = sectionSem + 1
    /\ dlHist' = [dlHist EXCEPT ![s].meta = "raised", ![s].raised = TRUE,
                                ![s].errs = @ + 1]
    /\ UNCHANGED <<manifest, fileTypes, fileSem>>
    /\ UNCHANGED <<pipeVars, rlVars, clVars, idVars, rebVars>>

\* line 101: get_section_meta returns the urnas of the section
MetaReturns(s) ==
    /\ task[s].pc = "meta"
    /\ LET todo == SkipEmptyUrnas(get_section_meta(manifest[s]))
           h == [dlHist[s] EXCEPT !.meta = "ok"]
       IN IF todo = <<>>
          THEN SectionCompletes(s, task[s], stats, h)
          ELSE /\ task' = [task EXCEPT ![s] =
                             [pc |-> "file", urnas |-> todo,
                              files |-> Wanted(Head(todo), fileTypes),
                              results |-> NoResults]]
               /\ dlHist' = [dlHist EXCEPT ![s] = h]
               /\ UNCHANGED <<stats, sectionSem>>
    /\ UNCHANGED <<manifest, fileTypes, fileSem>>
    /\ UNCHANGED <<pipeVars, rlVars, clVars, idVars, rebVars>>

\* line 74: async with self._semaphore, then download_file is called
FileAcquires(s) ==
    /\ task[s].pc = "file"
    /\ PermitFree(fileSem)
    /\ fileSem' = fileSem - 1
    /\ task' = [task EXCEPT ![s].pc = "download"]
    /\ dlHist' = [dlHist EXCEPT ![s].calls = @ + 1]
    /\ UNCHANGED <<manifest, fileTypes, stats, sectionSem>>
    /\ UNCHANGED <<pipeVars, rlVars, clVars, idVars, rebVars>>

\* lines 75-82 and 106-108: download_file returns True (the file is there) or
\* False; after the urna's last file the results go into the stats
FileReturns(s, ok) ==
    /\ task[s].pc = "download"
    /\ fileSem' = fileSem + 1
    /\ LET t == task[s]
           res == IF ok THEN [t.results EXCEPT !.ok = @ + 1]
                        ELSE [t.results EXCEPT !.fail = @ + 1]
           urnaEnds == Len(t.files) = 1
           st == AddResults(stats, res)
           h == [dlHist[s] EXCEPT !.down = @ + res.ok, !.errs = @ + res.fail]
           todo == SkipEmptyUrnas(Tail(t.urnas))
       IN IF ~urnaEnds
          THEN /\ task' = [task EXCEPT ![s] =
                             [t EXCEPT !.pc = "file", !.files = Tail(@), !.results = res]]
               /\ UNCHANGED <<stats, sectionSem, dlHist>>
          ELSE IF todo = <<>>
               THEN SectionCompletes(s, [t EXCEPT !.urnas = <<>>, !.files = <<>>,
                                                  !.results = NoResults], st, h)
               ELSE /\ task' = [task EXCEPT ![s] =
                                  [pc |-> "file", urnas |-> todo,
                                   files |-> Wanted(Head(todo), fileTypes),
                                   results |-> NoResults]]
                    /\ stats' = st
                    /\ dlHist' = [dlHist EXCEPT ![s] = h]
                    /\ UNCHANGED sectionSem
    /\ UNCHANGED <<manifest, fileTypes>>
    /\ UNCHANGED <<pipeVars, rlVars, clVars, idVars, rebVars>>

\* client.py lines 145-148: download_file raises; the urna's results are lost
\* and lines 130-138 count one error for the section
FileRaises(s) ==
    /\ task[s].pc = "download"
    /\ fileSem' = fileSem + 1
    /\ sectionSem' = sectionSem + 1
    /\ task' = [task EXCEPT ![s] = [IdleTask EXCEPT !.pc = "done"]]
    /\ stats' = CountError(stats)
    /\ dlHist' = [dlHist EXCEPT ![s].raised = TRUE, ![s].errs = @ + 1]
    /\ UNCHANGED <<manifest, fileTypes>>
    /\ UNCHANGED <<pipeVars, rlVars, clVars, idVars, rebVars>>

\* lines 197 and 207: every task of the gather has ended, the stats are returned
DownloadStateReturned == \A s \in Selected : task[s].pc = "done"

NextDownload ==
    \E s \in Selected :
        \/ SectionAcquires(s)
        \/ MetaRaises(s)
        \/ MetaReturns(s)
        \/ FileAcquires(s)
        \/ FileReturns(s, TRUE)
        \/ FileReturns(s, FALSE)
        \/ FileRaises(s)

(* ------------------------------------------------------------------ *)
(* RateLimiter                                                        *)
(* ------------------------------------------------------------------ *)
\* the acquire() calls issued at tick 0
Burst == BurstSeconds * Rate

\* the clock is followed until every call of the burst has had time to return
Horizon == Burst + Rate

\* client.py lines 19-22: the bucket starts full
InitLimiter ==
    /\ clock = 0
    /\ tokens = Rate
    /\ lastRefill = 0
    /\ limPc = "free"
    /\ wakeAt = 0
    /\ returned = 0
    /\ doneAt = 0

\* no limiter in the picture
LimiterIdle ==
    /\ clock = 0
    /\ tokens = 0
    /\ lastRefill = 0
    /\ limPc = "off"
    /\ wakeAt = 0
    /\ returned = 0
    /\ doneAt = 0

\* lines 26-28: elapsed * rate is one token per tick, capped at rate
Refilled == Min({Rate, tokens + (clock - lastRefill)})

\* one more call of the burst returns
Returns ==
    /\ returned' = returned + 1
    /\ doneAt' = IF returned + 1 = Burst THEN clock ELSE doneAt

\* lines 25-29 and 34-35: a caller takes the lock, refills and takes a token
AcquireTakesToken ==
    /\ limPc = "free"
    /\ returned < Burst
    /\ Refilled >= 1
    /\ tokens' = Refilled - 1
    /\ lastRefill' = clock
    /\ Returns
    /\ UNCHANGED <<clock, limPc, wakeAt>>
    /\ UNCHANGED <<pipeVars, dlVars, clVars, idVars, rebVars>>

\* lines 25-32: the bucket is empty, the caller sleeps (1 - tokens) / rate
\* seconds while holding the lock
AcquireSleeps ==
    /\ limPc = "free"
    /\ returned < Burst
    /\ Refilled < 1
    /\ tokens' = Refilled
    /\ lastRefill' = clock
    /\ wakeAt' = clock + (1 - Refilled)
    /\ limPc' = "sleeping"
    /\ UNCHANGED <<clock, returned, doneAt>>
    /\ UNCHANGED <<pipeVars, dlVars, clVars, idVars, rebVars>>

\* line 33: the sleep is over, the bucket is set to 0 and the caller returns;
\* _last_refill keeps the time from before the sleep
SleepEnds ==
    /\ limPc = "sleeping"
    /\ clock >= wakeAt
    /\ tokens' = 0
    /\ limPc' = "free"
    /\ Returns
    /\ UNCHANGED <<clock, lastRefill, wakeAt>>
    /\ UNCHANGED <<pipeVars, dlVars, clVars, idVars, rebVars>>

\* time passes
Tick ==
    /\ limPc # "off"
    /\ clock < Horizon
    /\ clock' = clock + 1
    /\ UNCHANGED <<tokens, lastRefill, limPc, wakeAt, returned, doneAt>>
    /\ UNCHANGED <<pipeVars, dlVars, clVars, idVars, rebVars>>

NextLimiter == AcquireTakesToken \/ AcquireSleeps \/ SleepEnds \/ Tick

(* ------------------------------------------------------------------ *)
(* TSEClient.fetch_json and TSEClient.download_file                   *)
(* ------------------------------------------------------------------ *)
\* what one request can meet: the status 404, 200, 429 or another error
\* status, a ConnectError or ReadTimeout ("conn"), any other exception
ResponseKinds == {"404", "200", "429", "http_error", "conn", "other"}

RECURSIVE Pow2(_)
Pow2(n) == IF n = 0 THEN 1 ELSE 2 * Pow2(n - 1)

\* lines 82 and 127: wait = 2 ** attempt
RateLimitedWait(a) == Pow2(a)

\* lines 90 and 137: wait = min(2 ** attempt, 30)
ConnectionWait(a) == Min({Pow2(a), BackoffCap})

CallHistInit == [calls |-> 0, requests |-> 0, slept |-> 0, seen |-> {},
                 last |-> "none", skippedOn |-> "none"]

InitClient ==
    /\ cKind = "json"
    /\ cPc = "idle"
    /\ attempt = 0
    /\ dest = "absent"
    /\ outcome = "none"
    /\ cHist = CallHistInit

\* no client call in the picture
ClientIdle ==
    /\ cKind = "json"
    /\ cPc = "off"
    /\ attempt = 0
    /\ dest = "absent"
    /\ outcome = "none"
    /\ cHist = CallHistInit

\* the history of a call that begins
CallBegins(h) == [CallHistInit EXCEPT !.calls = h.calls + 1]

\* the history after a request that met response kind k
AfterRequest(h, k) == [h EXCEPT !.requests = @ + 1, !.seen = @ \cup {k}, !.last = k]

\* what the call returns when its loop runs out: line 96 (None), line 149 (False)
Exhausted(kind) == IF kind = "json" THEN "None" ELSE "False"

\* the call returns or raises
CallEnds(out) ==
    /\ outcome' = out
    /\ cPc' = "idle"
    /\ attempt' = attempt

\* the loop goes to its next iteration, or runs out
NextAttempt ==
    IF attempt + 1 < MAX_RETRIES
    THEN attempt' = attempt + 1 /\ cPc' = "request" /\ outcome' = outcome
    ELSE CallEnds(Exhausted(cKind))

\* lines 132-133, 142-143, 146-147: if dest.exists(): dest.unlink()
Unlinked(kind, d) == IF kind = "file" THEN "absent" ELSE d

\* fetch_json is called
CallFetchJson ==
    /\ cPc = "idle"
    /\ cHist.calls < MaxCalls
    /\ cKind' = "json"
    /\ attempt' = 0
    /\ cPc' = "request"
    /\ outcome' = "none"
    /\ cHist' = CallBegins(cHist)
    /\ UNCHANGED dest
    /\ UNCHANGED <<pipeVars, dlVars, rlVars, idVars, rebVars>>

\* download_file is called; lines 105-107: a destination that exists with
\* non-zero size ends the call with True
CallDownloadFile ==
    /\ cPc = "idle"
    /\ cHist.calls < MaxCalls
    /\ cKind' = "file"
    /\ attempt' = 0
    /\ IF dest \in {"partial", "complete"}
       THEN /\ cPc' = "idle"
            /\ outcome' = "True"
            /\ cHist' = [CallBegins(cHist) EXCEPT !.skippedOn = dest]
       ELSE /\ cPc' = "request"
            /\ outcome' = "none"
            /\ cHist' = CallBegins(cHist)
    /\ UNCHANGED dest
    /\ UNCHANGED <<pipeVars, dlVars, rlVars, idVars, rebVars>>

\* lines 75-77 and 116-118: status 404 ends the call
Resp404 ==
    /\ cPc = "request"
    /\ cHist' = AfterRequest(cHist, "404")
    /\ CallEnds(Exhausted(cKind))
    /\ UNCHANGED <<cKind, dest>>
    /\ UNCHANGED <<pipeVars, dlVars, rlVars, idVars, rebVars>>

\* lines 78-79: the JSON is returned; lines 119-120: the destination is
\* opened for writing and the body is streamed into it
Resp200 ==
    /\ cPc = "request"
    /\ cHist' = AfterRequest(cHist, "200")
    /\ IF cKind = "json"
       THEN CallEnds("data") /\ dest' = dest
       ELSE cPc' = "stream" /\ dest' = "empty" /\ UNCHANGED <<attempt, outcome>>
    /\ UNCHANGED cKind
    /\ UNCHANGED <<pipeVars, dlVars, rlVars, idVars, rebVars>>

\* lines 81-85 and 126-130: status 429, sleep and continue
Resp429 ==
    /\ cPc = "request"
    /\ cHist' = [AfterRequest(cHist, "429") EXCEPT !.slept = RateLimitedWait(attempt)]
    /\ NextAttempt
    /\ UNCHANGED <<cKind, dest>>
    /\ UNCHANGED <<pipeVars, dlVars, rlVars, idVars, rebVars>>

\* lines 86-88 and 131-135: another error status; on the last attempt
\* fetch_json raises and download_file returns False
RespHttpError ==
    /\ cPc = "request"
    /\ cHist' = AfterRequest(cHist, "http_error")
    /\ dest' = Unlinked(cKind, dest)
    /\ IF attempt = MAX_RETRIES - 1
       THEN CallEnds(IF cKind = "json" THEN "raised" ELSE "False")
       ELSE NextAttempt
    /\ UNCHANGED cKind
    /\ UNCHANGED <<pipeVars, dlVars, rlVars, idVars, rebVars>>

\* lines 89-95 and 136-144: ConnectError or ReadTimeout, sleep and go on
RespConnError ==
    /\ cPc = "request"
    /\ cHist' = [AfterRequest(cHist, "conn") EXCEPT !.slept = ConnectionWait(attempt)]
    /\ dest' = Unlinked(cKind, dest)
    /\ NextAttempt
    /\ UNCHANGED cKind
    /\ UNCHANGED <<pipeVars, dlVars, rlVars, idVars, rebVars>>

\* any other exception leaves fetch_json as it is; lines 145-148: download_file
\* removes the destination and raises it again
RespOther ==
    /\ cPc = "request"
    /\ cHist' = AfterRequest(cHist, "other")
    /\ dest' = Unlinked(cKind, dest)
    /\ CallEnds("raised")
    /\ UNCHANGED cKind
    /\ UNCHANGED <<pipeVars, dlVars, rlVars, idVars, rebVars>>

\* lines 121-122: a chunk of the body is written to the destination
StreamChunk ==
    /\ cPc = "stream"
    /\ dest' = "partial"
    /\ UNCHANGED <<cKind, cPc, attempt, outcome, cHist>>
    /\ UNCHANGED <<pipeVars, dlVars, rlVars, idVars, rebVars>>

\* lines 123-124: the body is complete, True is returned
StreamEnds ==
    /\ cPc = "stream"
    /\ dest = "partial"
    /\ dest' = "complete"
    /\ CallEnds("True")
    /\ UNCHANGED <<cKind, cHist>>
    /\ UNCHANGED <<pipeVars, dlVars, rlVars, idVars, rebVars>>

\* lines 136-144: ReadTimeout while the body is streamed
StreamTimeout ==
    /\ cPc = "stream"
    /\ cHist' = [cHist EXCEPT !.seen = @ \cup {"conn"}, !.last = "conn",
                              !.slept = ConnectionWait(attempt)]
    /\ dest' = "absent"
    /\ NextAttempt
    /\ UNCHANGED cKind
    /\ UNCHANGED <<pipeVars, dlVars, rlVars, idVars, rebVars>>

\* lines 145-148: another exception while the body is streamed
StreamOther ==
    /\ cPc = "stream"
    /\ cHist' = [cHist EXCEPT !.seen = @ \cup {"other"}, !.last = "other"]
    /\ dest' = "absent"
    /\ CallEnds("raised")
    /\ UNCHANGED cKind
    /\ UNCHANGED <<pipeVars, dlVars, rlVars, idVars, rebVars>>

\* the process is killed while the body is streamed: no handler runs
KillWhileStreaming ==
    /\ cPc = "stream"
    /\ CallEnds("killed")
    /\ UNCHANGED <<cKind, dest, cHist>>
    /\ UNCHANGED <<pipeVars, dlVars, rlVars, idVars, rebVars>>

NextClient ==
    \/ CallFetchJson \/ CallDownloadFile
    \/ Resp404 \/ Resp200 \/ Resp429 \/ RespHttpError \/ RespConnError \/ RespOther
    \/ StreamChunk \/ StreamEnds \/ StreamTimeout \/ StreamOther
    \/ KillWhileStreaming

\* What the orchestrator adds to errors for a call that ended with `out`:
\* a manifest fetch that returned None gives no urnas (tse_api.py lines 70-71)
\* and one that raised is counted by the except clause; a file download
\* counts as ok or fail (manager.py lines 76-82), or is counted by the except
\* clause when it raised.
ErrorsCounted(kind, out) ==
    IF out = "raised"
    THEN CountError(ZeroStats).errors
    ELSE IF kind = "json"
         THEN ZeroStats.errors
         ELSE AddResults(ZeroStats, [NoResults EXCEPT !.fail = IF out = "False" THEN 1 ELSE 0,
                                                      !.ok = IF out = "True" THEN 1 ELSE 0]).errors

(* ------------------------------------------------------------------ *)
(* SectionIds derived from paths                                      *)
(* ------------------------------------------------------------------ *)
\* the directories above RAW_DIR (config.py lines 6-8: PROJECT_ROOT / data)
Prefixes == {<<"data">>, <<"srv", "dataurnas", "data">>}

Ufs == {"ac", "sp"}
Municipios == {"01120", "71072"}
Zonas == {"0001", "0002"}
Secoes == {"0001", "0002"}

\* manager.py lines 37-45: raw/{uf}/{municipio}/{zona}/{secao}
SectionDirs ==
    { pre \o <<"raw", uf, mun, zona, secao>> :
        pre \in Prefixes, uf \in Ufs, mun \in Municipios, zona \in Zonas,
        secao \in Secoes }

\* config.py lines 25-48: the pleito codes of the known elections
ConfiguredPleitos == {"406", "407", "452", "453"}

\* a ballot file: its directory as path parts and its name
\* o00{pleito}-{municipio}{zona}{secao}.bu as the text before the pleito code
\* and the code
BuFiles == [dir : SectionDirs, lead : {"o00"}, pleito : ConfiguredPleitos]

NoBuFile == [dir |-> <<>>, lead |-> "", pleito |-> ""]

NoId == <<>>

NoPrev == [file |-> NoBuFile, id |-> NoId]

\* config.py lines 27-28 and 37-38: pleito_1t and pleito_2t of an election
RoundOfPleito(pleito) == IF pleito \in {"452", "406"} THEN 1 ELSE 2

\* the administrative identity the layout gives a file: the four directories
\* under RAW_DIR
SectionOfFile(bu) ==
    LET n == Len(bu.dir) IN <<bu.dir[n - 3], bu.dir[n - 2], bu.dir[n - 1], bu.dir[n]>>

\* batch.py lines 61-72: name[3:].split("-")[0] when the name starts with o00
PleitoOfName(bu) == IF bu.lead = "o00" THEN bu.pleito ELSE ""

\* parts.index("raw"), counting from 1; 0 when there is none
RawIndex(parts) ==
    IF \E i \in 1 .. Len(parts) : parts[i] = "raw"
    THEN Min({i \in 1 .. Len(parts) : parts[i] = "raw"})
    ELSE 0

\* f"{turno}T"
TurnoLabel(turno) == IF turno = 1 THEN "1T" ELSE "2T"

\* duckdb_store.py lines 232-249: the id from the path; "" (NoId) when the
\* path has no raw component or fewer than four parts after it
SecaoIdFromPath(bu) ==
    LET parts == bu.dir
        raw == RawIndex(parts)
    IN IF raw = 0 \/ Len(parts) < raw + 4
       THEN NoId
       ELSE <<TurnoLabel(pleito_to_turno(PleitoOfName(bu))),
              parts[raw + 1], parts[raw + 2], parts[raw + 3], parts[raw + 4]>>

\* duckdb_store.py lines 253-256 on the result of _analyze_section, batch.py
\* lines 148-173: the four parts after the first raw, or else the last four
SecaoIdStored(bu) ==
    LET parts == bu.dir
        n == Len(parts)
        raw == RawIndex(parts)
        turno == TurnoLabel(pleito_to_turno(PleitoOfName(bu)))
    IN IF raw # 0 /\ n >= raw + 4
       THEN <<turno, parts[raw + 1], parts[raw + 2], parts[raw + 3], parts[raw + 4]>>
       ELSE <<turno, IF n >= 4 THEN parts[n - 3] ELSE "",
                     IF n >= 3 THEN parts[n - 2] ELSE "",
                     IF n >= 2 THEN parts[n - 1] ELSE "",
                     IF n >= 1 THEN parts[n] ELSE "">>

\* a ballot file of the layout is about to have its id derived
InitIds ==
    /\ idFile \in BuFiles
    /\ idPath = NoId
    /\ idStored = NoId
    /\ idPrev = NoPrev

\* no id derivation in the picture
IdsIdle ==
    /\ idFile = NoBuFile
    /\ idPath = NoId
    /\ idStored = NoId
    /\ idPrev = NoPrev

\* download_and_build.py lines 117 and 171: the producer derives the id
DerivePathId ==
    /\ idPath = NoId
    /\ idPath' = SecaoIdFromPath(idFile)
    /\ UNCHANGED <<idFile, idStored, idPrev>>
    /\ UNCHANGED <<pipeVars, dlVars, rlVars, clVars, rebVars>>

\* download_and_build.py line 141: the consumer has the file compiled
DeriveStoredId ==
    /\ idPath # NoId
    /\ idStored = NoId
    /\ idStored' = SecaoIdStored(idFile)
    /\ UNCHANGED <<idFile, idPath, idPrev>>
    /\ UNCHANGED <<pipeVars, dlVars, rlVars, clVars, rebVars>>

\* the next ballot file of the layout
NextBuFile ==
    /\ idStored # NoId
    /\ idPrev' = [file |-> idFile, id |-> idStored]
    /\ idFile' \in BuFiles
    /\ idPath' = NoId
    /\ idStored' = NoId
    /\ UNCHANGED <<pipeVars, dlVars, rlVars, clVars, rebVars>>

NextIds == DerivePathId \/ DeriveStoredId \/ NextBuFile

(* ------------------------------------------------------------------ *)
(* rebuild_db.py and DuckDBStore.clear                                *)
(* ------------------------------------------------------------------ *)
\* what the rebuild leaves alone
builderVars == <<disk, corrupt, existing, queue, compiled, errors, lastSnap, done,
                 pcMain, scan, called, pcCons, batch, pcSnap, tmpFile, opened,
                 primaryOnDisk, hist>>

\* rebuild_db.py line 45, scaled: fewer ballot files than this abort the run
MIN_BU_FILES == 1

\* rebuild_db.py line 82, scaled: CHECKPOINT after every so many files
CHECKPOINT_EVERY == 2

\* a clear() that deletes the section rows first
ClearOrderSecoesFirst == <<"secoes", "votos", "issues", "totais_cargo">>

\* duckdb_store.py lines 122-125: the DELETE statements of clear(), in order
ClearOrder == <<"votos", "issues", "totais_cargo", "secoes">>

\* files whose ids differ from one another
DistinctIds(S) ==
    \A f, g \in S : f # g => bu_file_to_secao_id(f) # bu_file_to_secao_id(g)

\* the file of S stored under id
FileOfId(S, id) == CHOOSE f \in S : bu_file_to_secao_id(f) = id

\* the detail rows of table `kind` an earlier build left for the files of S
DetailsOf(S, kind) ==
    [id \in Ids |->
        IF \E f \in S \ corrupt : bu_file_to_secao_id(f) = id
        THEN Len(SelectSeq(Stmts(FileOfId(S, id), FALSE), LAMBDA k : k = kind))
        ELSE 0]

\* The script starts on the database earlier builds have left: some files of
\* the disk compiled in full, the primary file checkpointed, the dashboard
\* snapshot published or not.
InitRebuild ==
    /\ disk \in SUBSET Files
    /\ corrupt \in SUBSET disk
    /\ \E built \in SUBSET disk :
         /\ DistinctIds(built)
         /\ secoes = [id \in {bu_file_to_secao_id(f) : f \in built} |->
                         SecoesRow(FileOfId(built, id), FileOfId(built, id) \in corrupt)]
         /\ issues = DetailsOf(built, "issue")
         /\ votos = DetailsOf(built, "voto")
         /\ totais = DetailsOf(built, "total")
    /\ primary = Rows(secoes)
    /\ snapFile \in {Absent, [st |-> "complete", rows |-> primary]}
    /\ existing = {}
    /\ queue = <<>>
    /\ compiled = 0
    /\ errors = 0
    /\ lastSnap = 0
    /\ done = FALSE
    /\ pcMain = "start"
    /\ scan = {}
    /\ called = {}
    /\ pcCons = "off"
    /\ batch = <<>>
    /\ stmt = 0
    /\ pcSnap = "off"
    /\ tmpFile = Absent
    /\ reader = "none"
    /\ opened = "none"
    /\ primaryOnDisk = TRUE
    /\ faults = 0
    /\ hist = HistInit
    /\ pcReb = "start"
    /\ rebTodo = <<>>

\* no rebuild in the picture
RebuildIdle ==
    /\ pcReb = "off"
    /\ rebTodo = <<>>

\* main(), lines 40-63: list the ballot files, abort when there are too few,
\* copy the primary file to the backup path, open the store
RebuildStarts ==
    /\ pcReb = "start"
    /\ IF Cardinality(disk) < MIN_BU_FILES
       THEN pcReb' = "aborted" /\ rebTodo' = rebTodo /\ stmt' = stmt
       ELSE /\ pcReb' = "clear"
            /\ rebTodo' = SelectSeq([f \in Files |-> f], LAMBDA f : f \in disk)
            /\ stmt' = 1
    /\ UNCHANGED <<secoes, issues, votos, totais, primary, snapFile, reader, faults>>
    /\ UNCHANGED builderVars
    /\ UNCHANGED <<dlVars, rlVars, clVars, idVars>>

\* one DELETE of clear(), each committed on its own; lines 126-127 renew the
\* issue sequence after the last one
ClearStmt ==
    /\ pcReb = "clear"
    /\ LET t == ClearOrder[stmt] IN
         /\ votos' = IF t = "votos" THEN ZeroCount ELSE votos
         /\ issues' = IF t = "issues" THEN ZeroCount ELSE issues
         /\ totais' = IF t = "totais_cargo" THEN ZeroCount ELSE totais
         /\ secoes' = IF t = "secoes" THEN <<>> ELSE secoes
    /\ IF stmt < Len(ClearOrder)
       THEN stmt' = stmt + 1 /\ pcReb' = pcReb
       ELSE stmt' = 0 /\ pcReb' = "loop"
    /\ UNCHANGED <<primary, snapFile, reader, faults, rebTodo>>
    /\ UNCHANGED builderVars
    /\ UNCHANGED <<dlVars, rlVars, clVars, idVars>>

\* line 74: _process_section is called for the next file of the list
RebProcCall ==
    /\ pcReb = "loop"
    /\ rebTodo # <<>>
    /\ pcReb' = "proc"
    /\ stmt' = 1
    /\ UNCHANGED <<secoes, issues, votos, totais, primary, snapFile, reader, faults,
                   rebTodo>>
    /\ UNCHANGED builderVars
    /\ UNCHANGED <<dlVars, rlVars, clVars, idVars>>

\* lines 82-83: the files handled so far are a multiple of CHECKPOINT_EVERY
CheckpointDue == (Cardinality(disk) - Len(Tail(rebTodo))) % CHECKPOINT_EVERY = 0

\* one statement of the call; after the last one the loop goes to its next
\* file, with a CHECKPOINT when one is due
RebProcStmt ==
    /\ pcReb = "proc"
    /\ LET f == Head(rebTodo)
           ss == Stmts(f, f \in corrupt)
       IN /\ Execute(ss[stmt], f)
          /\ IF stmt < Len(ss)
             THEN /\ stmt' = stmt + 1
                  /\ UNCHANGED <<pcReb, rebTodo, primary>>
             ELSE /\ stmt' = 0
                  /\ pcReb' = "loop"
                  /\ rebTodo' = Tail(rebTodo)
                  /\ primary' = IF CheckpointDue THEN Rows(secoes') ELSE primary
    /\ UNCHANGED <<snapFile, reader, faults>>
    /\ UNCHANGED builderVars
    /\ UNCHANGED <<dlVars, rlVars, clVars, idVars>>

\* a statement of the call raises: lines 76-79 count the error and go on
RebProcFails ==
    /\ pcReb = "proc"
    /\ faults < MaxFaults
    /\ faults' = faults + 1
    /\ stmt' = 0
    /\ pcReb' = "loop"
    /\ rebTodo' = Tail(rebTodo)
    /\ primary' = IF CheckpointDue THEN Rows(secoes) ELSE primary
    /\ UNCHANGED <<secoes, issues, votos, totais, snapFile, reader>>
    /\ UNCHANGED builderVars
    /\ UNCHANGED <<dlVars, rlVars, clVars, idVars>>

\* line 94: the CHECKPOINT after the loop
RebFinalCheckpoint ==
    /\ pcReb = "loop"
    /\ rebTodo = <<>>
    /\ primary' = Rows(secoes)
    /\ pcReb' = "copy"
    /\ UNCHANGED <<secoes, issues, votos, totais, stmt, snapFile, reader, faults,
                   rebTodo>>
    /\ UNCHANGED builderVars
    /\ UNCHANGED <<dlVars, rlVars, clVars, idVars>>

\* line 98: shutil.copy2(DEFAULT_DB_PATH, SNAPSHOT) opens the published path
\* for writing and has written part of the data
RebCopyBegins ==
    /\ pcReb = "copy"
    /\ snapFile' = [st |-> "partial", rows |-> primary]
    /\ pcReb' = "copying"
    /\ UNCHANGED <<secoes, issues, votos, totais, stmt, primary, reader, faults,
                   rebTodo>>
    /\ UNCHANGED builderVars
    /\ UNCHANGED <<dlVars, rlVars, clVars, idVars>>

\* line 98: the copy has written the last byte
RebCopyEnds ==
    /\ pcReb = "copying"
    /\ snapFile' = [st |-> "complete", rows |-> primary]
    /\ pcReb' = "unlink_wal"
    /\ UNCHANGED <<secoes, issues, votos, totais, stmt, primary, reader, faults,
                   rebTodo>>
    /\ UNCHANGED builderVars
    /\ UNCHANGED <<dlVars, rlVars, clVars, idVars>>

\* lines 99-125: the WAL of the snapshot is removed, the counts are logged
RebuildEnds ==
    /\ pcReb = "unlink_wal"
    /\ pcReb' = "done"
    /\ UNCHANGED <<secoes, issues, votos, totais, stmt, primary, snapFile, reader,
                   faults, rebTodo>>
    /\ UNCHANGED builderVars
    /\ UNCHANGED <<dlVars, rlVars, clVars, idVars>>

\* the script is killed at an arbitrary point and may be started again; every
\* statement that had returned is committed and survives
RebuildKilled ==
    /\ pcReb \in {"clear", "loop", "proc", "copy", "copying", "unlink_wal"}
    /\ faults < MaxFaults
    /\ faults' = faults + 1
    /\ pcReb' = "start"
    /\ stmt' = 0
    /\ rebTodo' = <<>>
    /\ UNCHANGED <<secoes, issues, votos, totais, primary, snapFile, reader>>
    /\ UNCHANGED builderVars
    /\ UNCHANGED <<dlVars, rlVars, clVars, idVars>>

NextRebuild ==
    \/ RebuildStarts \/ ClearStmt \/ RebProcCall \/ RebProcStmt \/ RebProcFails
    \/ RebFinalCheckpoint \/ RebCopyBegins \/ RebCopyEnds \/ RebuildEnds
    \/ RebuildKilled \/ ReaderOpens

\* manager.py lines 76-82: the counter of download_section_files that a
\* download_file call ending with `out` goes to, the destination being in
\* state d when the call has returned (dest.exists() holds for an empty file)
Classify(out, d) ==
    IF out = "True"
    THEN IF d # "absent" THEN "ok" ELSE "skip"
    ELSE "fail"

\* the stats of a download_state run whose one file ended this way
StatsOfOneFile(out, d) ==
    AddResults(ZeroStats, [NoResults EXCEPT ![Classify(out, d)] = 1])

Init == InitPipe /\ DownloadIdle /\ LimiterIdle /\ ClientIdle /\ IdsIdle /\ RebuildIdle

Consumer ==
    \/ ConsLoopTest \/ ConsGet \/ ConsGetEnds \/ ConsSkip \/ ConsCall
    \/ ProcStmt \/ ConsCheckpoint \/ ConsSnapshotDue \/ ConsSnapshotTaken

CreateSnapshot ==
    \/ SnapCheckpoint \/ SnapUnlinkTmp \/ SnapCopyBegins \/ SnapCopyEnds
    \/ SnapRename \/ SnapUnlinkWal

MainThread ==
    \/ DiskChange \/ Construct \/ ConstructEnds \/ ScanStep \/ ScanEnds
    \/ OnSectionDownloaded \/ Finish \/ FinishJoins \/ FinishEnds \/ Rerun

NextPipeline ==
    Consumer \/ CreateSnapshot \/ MainThread \/ ReaderOpens \/ GetStoreFallback

NextFaults == Consumer \/ CreateSnapshot \/ MainThread \/ ProcStmtFails \/ Kill

\* the pipeline without storage faults
SpecPipeline == Init /\ [][NextPipeline]_vars

\* the pipeline with at most MaxFaults failed statements or kills
SpecFaults == Init /\ [][NextFaults]_vars

NextStorageFaults ==
    Consumer \/ CreateSnapshot \/ MainThread \/ SnapStepFails \/ ConsCheckpointFails

\* the pipeline with at most MaxFaults failed CHECKPOINTs or snapshot steps
SpecStorageFaults == Init /\ [][NextStorageFaults]_vars

NextLateCalls ==
    Consumer \/ CreateSnapshot \/ MainThread \/ LateOnSectionDownloaded
    \/ LateCompileRemaining

\* the pipeline with at most MaxLateCalls calls made after finish() returned
SpecLateCalls == Init /\ [][NextLateCalls]_vars

\* one download_state call on a fresh DownloadManager
InitDl ==
    InitPipe /\ InitDownload /\ LimiterIdle /\ ClientIdle /\ IdsIdle /\ RebuildIdle

SpecDownload == InitDl /\ [][NextDownload]_vars

\* a burst of acquire() calls on a fresh RateLimiter
InitRl ==
    InitPipe /\ DownloadIdle /\ InitLimiter /\ ClientIdle /\ IdsIdle /\ RebuildIdle

SpecLimiter == InitRl /\ [][NextLimiter]_vars

\* TSEClient calls made one after the other
InitCl ==
    InitPipe /\ DownloadIdle /\ LimiterIdle /\ InitClient /\ IdsIdle /\ RebuildIdle

\* One download_state call over several batches. The event loop runs every
\* task that can go on, and every request ends within its timeouts and
\* retries, so a step that stays possible is taken.
InitBt ==
    InitPipe /\ InitBatches /\ LimiterIdle /\ ClientIdle /\ IdsIdle /\ RebuildIdle

SpecBatches == InitBt /\ [][NextDownload]_vars /\ WF_vars(NextDownload)

\* SectionIds derived for one ballot file of the layout after the other
InitId ==
    InitPipe /\ DownloadIdle /\ LimiterIdle /\ ClientIdle /\ InitIds /\ RebuildIdle

SpecIds == InitId /\ [][NextIds]_vars

\* rebuild_db.py on the database of an earlier build, with at most MaxFaults
\* failed statements or kills, and the dashboard opening the snapshot
InitReb == InitRebuild /\ DownloadIdle /\ LimiterIdle /\ ClientIdle /\ IdsIdle

SpecRebuild == InitReb /\ [][NextRebuild]_vars

SpecClient == InitCl /\ [][NextClient]_vars

(* ------------------------------------------------------------------ *)
(* Properties of the pipeline                                         *)
(* ------------------------------------------------------------------ *)
\* no _process_section call for file f is in progress
NoCallOn(f) == ~(pcCons = "proc" /\ Head(batch) = f)

\* the first _process_section call for f wrote the secoes row and every vote
\* row of the file
FirstCallWroteVotes(f) ==
    /\ f \in DOMAIN hist.firstRow
    /\ hist.firstVotos[f] = NumVotos(f)

\* C1: once _process_section has been called again for a ballot file whose
\* first call wrote its section row and vote rows, the store holds one secoes
\* row for the SectionId, with the content the first call left, and the
\* section's vote rows are those the first call left.
C1_CompileTwiceIdempotent ==
    \A f \in Files :
        (hist.allCalls[f] >= 2 /\ NoCallOn(f) /\ FirstCallWroteVotes(f)) =>
            LET id == bu_file_to_secao_id(f) IN
            /\ id \in Rows(secoes)
            /\ secoes[id] = hist.firstRow[f]
            /\ votos[id] = hist.firstVotos[f]

\* the SectionIds of the ballot files on disk
DiskIds == {bu_file_to_secao_id(f) : f \in disk}

\* C2: when a run over a store that held K SectionIds has finished,
\* _process_section was called exactly once for each SectionId of the disk
\* that the store did not hold and for no other, the store holds exactly
\* those K + M rows, and the K rows are as they were.
C2_ResumeCompilesOnlyNew ==
    pcMain = "closed" =>
        LET new == DiskIds \ hist.startIds IN
        /\ \A id \in Ids : hist.calls[id] = IF id \in new THEN 1 ELSE 0
        /\ compiled = Cardinality(new)
        /\ Rows(secoes) = hist.startIds \cup new
        /\ Cardinality(Rows(secoes)) = Cardinality(hist.startIds) + Cardinality(new)
        /\ \A id \in hist.startIds : secoes[id] = hist.startRows[id]

C2_Witness ==
    /\ pcMain = "closed"
    /\ hist.startIds # {}
    /\ DiskIds \ hist.startIds # {}

\* C3: no secoes row comes from a ballot file whose decode failed, and such a
\* file's SectionId is not recorded as compiled.
C3_NoRowForFailedDecode ==
    /\ \A id \in Rows(secoes) : secoes[id].bu # 0
    /\ \A f \in hist.failedDec :
           NoCallOn(f) => bu_file_to_secao_id(f) \notin existing

\* a section has every detail row of the ballot file its secoes row came from
DetailComplete(id) ==
    secoes[id].bu # 0 =>
        /\ votos[id] >= NumVotos(secoes[id].bu)
        /\ totais[id] >= 1
        /\ issues[id] >= NumIssues(secoes[id].bu)

\* C4: when a re-run over the disk has finished, every section whose secoes
\* row was in the store when the run began (also one an earlier process left
\* without its detail rows) has its complete set of detail rows.
C4_RerunRepairsDetailRows ==
    pcMain = "closed" => \A id \in hist.startIds : DetailComplete(id)

\* C5: the file at the published snapshot path is never partially written,
\* and no reader that opens the path finds a partial file.
C5_SnapshotNeverPartial ==
    /\ snapFile.st # "partial"
    /\ reader # "partial"
    /\ snapFile.st = "complete" => snapFile.rows \subseteq Rows(secoes)

\* a reader has opened the published snapshot and a newer copy is half written
C5_Witness ==
    /\ pcSnap = "copying"
    /\ tmpFile.st = "partial"
    /\ snapFile.st = "complete"
    /\ snapFile.rows # primary
    /\ reader = "complete"

Running == {s \in Sections : task[s].pc \in {"meta", "file", "download"}}

\* C7: a section whose get_section_meta raised adds exactly one to errors and
\* nothing to sections_processed, and gets no callback; it gives its permit back
\* and some task can always take a step until download_state returns; once it
\* has returned, every section that did not fail itself has been counted in
\* sections_processed and its callback has run once
C7_MetaFailureIsolated ==
    /\ sectionSem = MaxConcurrent - Cardinality(Running)
    /\ DownloadStateReturned \/ ENABLED NextDownload
    /\ \A s \in Sections :
           dlHist[s].meta = "raised" =>
               /\ task[s].pc = "done"
               /\ dlHist[s].errs = 1
               /\ dlHist[s].proc = 0
               /\ dlHist[s].cb = 0
               /\ dlHist[s].calls = 0
    /\ DownloadStateReturned =>
           /\ \A s \in Sections :
                  ~dlHist[s].raised => (dlHist[s].proc = 1 /\ dlHist[s].cb = 1)
           /\ stats.sections_processed =
                  Cardinality({s \in Sections : ~dlHist[s].raised})

\* download_state has returned; one section's manifest fetch raised and another
\* section was processed
C7_Witness ==
    /\ DownloadStateReturned
    /\ \E s, t \in Sections :
           /\ dlHist[s].meta = "raised"
           /\ dlHist[t].meta = "ok"
           /\ dlHist[t].proc = 1
           /\ dlHist[t].calls > 0

\* a manifest entry whose hash is "0", empty or missing
NullEntry(h) == h.hash \in {"0", "", "none"}

\* the name is one of the requested file types (every name when none is given)
Requested(fn, types) == types = <<>> \/ \E i \in 1 .. Len(types) : types[i] = fn

\* the positions <<entry, name>> of the file names of a manifest that sit in
\* an entry with a real hash and are of a requested type
NamesOf(m, types) ==
    UNION { {<<i, j>> : j \in {k \in 1 .. Len(m[i].arqs) : Requested(m[i].arqs[k], types)}}
            : i \in {n \in 1 .. Len(m) : ~NullEntry(m[n])} }

\* C8: get_section_meta returns one UrnaMeta per entry with a real hash, in
\* manifest order, and none for an entry whose hash is "0", empty or missing;
\* a section makes no more download_file calls than its real-hash entries list
\* names, and a section with only null-hash entries makes no call and counts no
\* error (its manifest fetch not raising)
C8_NullHashNeverDownloaded ==
    /\ \A m \in Manifests :
           LET real == {n \in 1 .. Len(m) : ~NullEntry(m[n])}
               urnas == get_section_meta(m)
           IN /\ Len(urnas) = Cardinality(real)
              /\ \A i \in 1 .. Len(urnas) :
                     /\ urnas[i].hash \notin {"0", "", "none"}
                     /\ \E n \in real :
                            /\ urnas[i] = [hash |-> m[n].hash, arquivos |-> m[n].arqs]
                            /\ Cardinality({k \in real : k <= n}) = i
    /\ \A s \in Sections :
           /\ dlHist[s].calls <= Cardinality(NamesOf(manifest[s], <<>>))
           /\ (\A n \in 1 .. Len(manifest[s]) : NullEntry(manifest[s][n])) =>
                  /\ dlHist[s].calls = 0
                  /\ dlHist[s].down = 0
                  /\ dlHist[s].meta # "raised" => dlHist[s].errs = 0

\* download_state has returned; a section whose only entry has hash "0" and
\* lists file names was processed, and so was a section with an empty-hash
\* entry next to a real one
C8_Witness ==
    /\ DownloadStateReturned
    /\ \E s, t \in Sections :
           /\ manifest[s] = <<Entry("0", <<"bu", "logjez">>)>>
           /\ dlHist[s].proc = 1
           /\ manifest[t] = <<Entry("", <<"bu">>), Entry("h1", <<"bu">>)>>
           /\ dlHist[t].proc = 1
           /\ dlHist[t].calls = 1

\* download_state has returned, no manifest fetch raised and every download_file
\* call returned True
CleanRun ==
    /\ DownloadStateReturned
    /\ \A s \in Sections : ~dlHist[s].raised /\ dlHist[s].errs = 0

\* file names of a requested type in the real-hash entries of all sections
TotalNames(types) ==
    Cardinality(UNION { {<<s, p>> : p \in NamesOf(manifest[s], types)} : s \in Sections })

\* C9 as stated: after a clean run sections_processed is the number of selected
\* sections, downloaded is the number of file names over all real-hash entries,
\* and an empty-manifest section adds nothing to downloaded or errors
C9_CountersAfterCleanRun ==
    CleanRun =>
        /\ stats.sections_processed = Cardinality(Sections)
        /\ stats.downloaded = TotalNames(<<>>)
        /\ \A s \in Sections :
               manifest[s] = <<>> => (dlHist[s].down = 0 /\ dlHist[s].errs = 0)

\* C9 amended: downloaded is the number of file names, over all real-hash
\* entries, that pass the run's file-type filter
C9_CountersWithFileTypes ==
    CleanRun =>
        /\ stats.sections_processed = Cardinality(Sections)
        /\ stats.downloaded = TotalNames(fileTypes)
        /\ stats.errors = 0
        /\ stats.skipped = 0
        /\ \A s \in Sections :
               manifest[s] = <<>> => (dlHist[s].down = 0 /\ dlHist[s].errs = 0)

\* a clean run over an empty manifest and a two-urna manifest, with the "bu"
\* filter dropping one listed name
C9_Witness ==
    /\ CleanRun
    /\ fileTypes = <<"bu">>
    /\ \E s, t \in Sections :
           /\ manifest[s] = <<>>
           /\ manifest[t] = <<Entry("h1", <<"bu">>), Entry("h2", <<"bu", "logjez">>)>>
    /\ stats.downloaded = 2

(* ------------------------------------------------------------------ *)
(* RateLimiter: duration of a burst                                   *)
(* ------------------------------------------------------------------ *)
\* one second, in ticks
Epsilon == Rate

\* C10: when the last acquire() of a burst of 10 x rate calls has returned, at
\* least (requests / rate) - epsilon seconds have passed since the burst began
C10_BurstTakesFullTime ==
    returned = Burst => doneAt >= Burst - Epsilon

(* ------------------------------------------------------------------ *)
(* TSEClient: 404, backoff, exhausted retries, partial files          *)
(* ------------------------------------------------------------------ *)
\* the call in hand has ended by returning or raising
CallEnded == cPc = "idle" /\ outcome \notin {"none", "killed"}

\* C11: a call whose last response was a 404 ended at that response with None
\* (fetch_json) or False (download_file), and the orchestrator counts no error
\* for it
C11_NotFoundIsNoError ==
    (CallEnded /\ cHist.last = "404") =>
        /\ outcome = Exhausted(cKind)
        /\ ErrorsCounted(cKind, outcome) = 0

\* C12: no backoff sleep of fetch_json or download_file is longer than the
\* cap of 30 seconds
C12_BackoffCapped == cHist.slept <= BackoffCap

\* responses the client treats as transient
Transient == {"429", "conn"}

\* the outcome of a call that met a 404
NotFoundOutcome(kind) == IF kind = "json" THEN "None" ELSE "False"

\* C13: a call whose MAX_RETRIES attempts all failed with a transient error
\* has made at most MAX_RETRIES requests, ends with an outcome other than the
\* not-found one, and the orchestrator counts an error for it
C13_ExhaustedIsError ==
    /\ cHist.requests <= MAX_RETRIES
    /\ (CallEnded /\ cHist.seen # {} /\ cHist.seen \subseteq Transient) =>
           /\ outcome # NotFoundOutcome(cKind)
           /\ ErrorsCounted(cKind, outcome) >= 1

\* C14: between calls a destination that exists with non-zero size is
\* complete, and the skip-if-exists check never accepts a partial file
C14_NoPartialDestination ==
    /\ cPc = "idle" => dest # "partial"
    /\ cHist.skippedOn # "partial"

(* ------------------------------------------------------------------ *)
(* download_state: concurrency bounds, completion callback            *)
(* ------------------------------------------------------------------ *)
\* sections with a download_file call in flight
InFlight == {s \in Sections : task[s].pc = "download"}

\* C15: at every moment at most max_concurrent download_file calls are in
\* flight and at most max_concurrent sections are inside the guarded region of
\* _process_one_section; neither semaphore goes below zero
C15_ConcurrencyBounded ==
    /\ Cardinality(InFlight) <= MaxConcurrent
    /\ Cardinality(Running) <= MaxConcurrent
    /\ fileSem = MaxConcurrent - Cardinality(InFlight)
    /\ fileSem >= 0
    /\ sectionSem >= 0

\* every section permit is taken, a download is in flight and another section
\* is waiting for a permit
C15_Witness ==
    /\ sectionSem = 0
    /\ Cardinality(Running) = MaxConcurrent
    /\ InFlight # {}
    /\ \E s \in Sections : task[s].pc = "new"

\* every wanted file of the section has been handed to download_file
AllFilesAttempted(s) ==
    /\ task[s].pc = "done"
    /\ dlHist[s].meta = "ok"
    /\ dlHist[s].calls = Cardinality(NamesOf(manifest[s], fileTypes))

\* C16: once all files of a section have been attempted, whatever the
\* downloads' ends, its callback has run exactly once, and the callback ran
\* before the section was added to sections_processed
C16_CallbackOnceThenCounted ==
    \A s \in Sections :
        AllFilesAttempted(s) => (dlHist[s].cb = 1 /\ dlHist[s].procAtCb = 0)

(* ------------------------------------------------------------------ *)
(* RealtimeBuilder: one compile per id, the writer connection, the    *)
(* lock, the dashboard's reader                                       *)
(* ------------------------------------------------------------------ *)
\* C17: within one run _process_section is called at most once per SectionId,
\* however often the id was put on the queue, and the compiled counter never
\* exceeds the number of ids it was called for
C17_CompiledAtMostOnce ==
    /\ \A id \in Ids : hist.calls[id] <= 1
    /\ compiled <= Cardinality({id \in Ids : hist.calls[id] = 1})

\* a run has ended in which the one ballot file on disk was put on the queue
\* twice, by compile_remaining_from_disk and by its callback, and compiled once
C17_Witness ==
    /\ pcMain = "closed"
    /\ Cardinality(disk) = 1
    /\ hist.enq = 2
    /\ hist.handled = 2
    /\ compiled = 1

\* the consumer thread has been started and has not ended
ConsumerAlive == pcCons \notin {"off", "exit"}

\* the main thread is at a place where it runs SQL on the writer connection:
\* __init__ up to the initial snapshot (lines 99-104), finish from the final
\* snapshot to store.close() (lines 184-190)
MainOnWriter == pcMain \in {"init_snapshot", "final_snapshot"}

\* C18: while the consumer thread is alive the main thread is in
\* compile_remaining_from_disk, in the download phase or waiting in join, none
\* of which runs SQL; the main thread is on the writer connection only before
\* the consumer is started and after it has been joined, and create_snapshot is
\* run by the consumer or by the main thread, never by both
C18_OnlyConsumerUsesWriter ==
    /\ ConsumerAlive => pcMain \in {"scan", "download", "join"}
    /\ MainOnWriter => ~ConsumerAlive
    /\ pcSnap # "off" => (MainOnWriter \/ pcCons = "snapshot")
    /\ stmt # 0 => pcCons = "proc"

\* the consumer is in the middle of _process_section while the main thread is
\* in its download phase and has items waiting on the queue
C18_Witness ==
    /\ pcCons = "proc"
    /\ stmt > 1
    /\ pcMain = "download"
    /\ queue # <<>>

\* C19: no membership test on _existing by a callback or by
\* compile_remaining_from_disk runs while the consumer holds the lock
C19_ExistingUnderLock == ~hist.racy

\* C20: get_store never opens the primary writer file
C20_ReaderNeverOpensPrimary == opened # "primary"

\* C21: A create_snapshot step that raises (the CHECKPOINT, the copy to the
\* temporary file, the rename, the WAL removal) ends the call and nothing more:
\* the consumer goes from its periodic snapshot back to its loop, and the
\* published snapshot changes only by a rename of the complete temporary copy.
C21_SnapshotFailureSwallowed ==
    [][ /\ (pcCons = "snapshot" => pcCons' \in {"snapshot", "loop"})
        /\ (snapFile' # snapFile =>
               /\ pcSnap = "rename" /\ pcSnap' = "unlink_wal"
               /\ tmpFile.st = "complete" /\ snapFile' = tmpFile) ]_vars

C21_Witness ==
    /\ hist.snapErrCons
    /\ hist.snapErr = "copying"
    /\ tmpFile.st = "partial"
    /\ snapFile.st = "complete"
    /\ lastSnap = compiled
    /\ pcCons = "get"

\* C22: After the CHECKPOINT that follows a batch has failed the consumer
\* keeps running: it ends only through its loop test, with finish() called
\* and the queue empty, so no queued item is left behind.
C22_CheckpointFailureSurvived ==
    hist.ckptFailed /\ pcCons = "exit" => done /\ queue = <<>>

\* C23: Once finish() has returned the queue is empty and stays empty:
\* on_section_downloaded and compile_remaining_from_disk add nothing to it.
C23_NoWorkAfterFinish ==
    pcMain = "closed" => queue = <<>>

\* C24: A batch holds at most BATCH_SIZE items. Whenever the consumer is at
\* the head of its loop or is collecting a batch, and whenever it checks for or
\* takes its periodic snapshot, every statement issued so far has been
\* followed by a CHECKPOINT; and a new batch is begun only with fewer than
\* SNAPSHOT_INTERVAL sections compiled since the last snapshot.
C24_CheckpointThenSnapshot ==
    /\ Len(batch) <= BATCH_SIZE
    /\ pcCons \in {"loop", "get", "snapchk", "snapshot"} => primary = Rows(secoes)
    /\ pcCons \in {"loop", "get"} => compiled - lastSnap < SNAPSHOT_INTERVAL

C24_Witness ==
    /\ pcCons = "get"
    /\ batch # <<>>
    /\ primary # {}
    /\ compiled >= 1
    /\ compiled - lastSnap = SNAPSHOT_INTERVAL - 1

\* C28: While a run is in progress every id of _existing has a row in secoes,
\* and _existing holds exactly the ids loaded at startup plus one id per
\* section counted in _compiled; failed statements and kills included.
C28_ExistingMatchesStore ==
    pcMain # "start" =>
        /\ existing \subseteq Rows(secoes)
        /\ Cardinality(existing) = Cardinality(hist.startIds) + compiled

C28_Witness ==
    /\ pcMain # "start"
    /\ hist.startIds # {}
    /\ compiled >= 1
    /\ faults >= 1

\* C26: A download_file call that returns True at its skip check, without a
\* request, because the destination existed, is counted under skipped and
\* adds nothing to downloaded.
C26_ExistingFileCountedSkipped ==
    (cKind = "file" /\ CallEnded /\ cHist.skippedOn # "none") =>
        /\ StatsOfOneFile(outcome, dest).skipped = 1
        /\ StatsOfOneFile(outcome, dest).downloaded = 0

C27_DetailsHaveSectionRow ==
    \A id \in Ids :
        (issues[id] > 0 \/ votos[id] > 0 \/ totais[id] > 0) => id \in Rows(secoes)

C27_Witness ==
    /\ faults >= 1
    /\ pcReb = "clear"
    /\ stmt = Len(ClearOrder)
    /\ Rows(secoes) # {}
    /\ \A id \in Ids : votos[id] = 0

\* C30: While rebuild_db.py refreshes the dashboard snapshot the published
\* path never holds a partially copied file, and no reader opens one.
C30_RebuildSnapshotAtomic ==
    /\ pcReb = "copying" => snapFile.st # "partial"
    /\ reader # "partial"

\* sections holding a permit of section_sem
HoldingSection == {s \in Selected : task[s].pc \in {"meta", "file", "download"}}

\* sections holding a permit of the file semaphore
HoldingFile == {s \in Selected : task[s].pc = "download"}

\* no task of a batch has begun before every task of the batches before it
\* has ended
BatchesInOrder ==
    \A s, t \in Selected :
        (BatchOf(t) < BatchOf(s) /\ task[s].pc # "new") => task[t].pc = "done"

\* every permit is either free or held by a running task, and all are free
\* once download_state has returned
PermitsConserved ==
    /\ sectionSem + Cardinality(HoldingSection) = MaxConcurrent
    /\ fileSem + Cardinality(HoldingFile) = MaxConcurrent
    /\ DownloadStateReturned => sectionSem = MaxConcurrent /\ fileSem = MaxConcurrent

\* C29: download_state eventually returns: the two semaphores never block
\* every task. A batch begins only after every task of the batch before it
\* has ended, and when download_state returns every permit has been released.
C29_DownloadStateReturns ==
    /\ [](BatchesInOrder /\ PermitsConserved)
    /\ <>DownloadStateReturned

C29_Witness ==
    /\ DownloadStateReturned
    /\ Cardinality(Selected) > BATCH
    /\ stats.downloaded >= 1
    /\ sectionSem = MaxConcurrent
    /\ fileSem = MaxConcurrent

====
